---- MODULE Spec2Model ----
(***************************************************************************)
(* CUE upload library: transfer orchestration core.                        *)
(*                                                                         *)
(*   handleSingleFileUpload   (singleFileUploader.js)                      *)
(*   handleMultipartUpload    (multipartUploader.js)                       *)
(*   processFolderUpload      (folderProcessor.js)                         *)
(*   CUEUploader.upload       (index.js)                                   *)
(*                                                                         *)
(* Every await of the code is a suspension point: one action of the model  *)
(* is the code that runs from the resolution of one awaited promise to    *)
(* the next await (JavaScript runs that stretch without interleaving).     *)
(* The result of an awaited network or file-system call is an input of    *)
(* the action that resumes after it.                                       *)
(*                                                                         *)
(* Byte counts are kept in units of 1/UnitsPerMiB MiB, so that the sizes   *)
(* that matter (10001 parts of 5 MiB) stay within TLC's integers.          *)
(***************************************************************************)
EXTENDS Integers, Sequences, FiniteSets, TLC

----------------------------------------------------------------------------
(* Bounds of the model *)

\* resolution of byte counts: model units per MiB (1024 * 1024 bytes)
UnitsPerMiB == 2
\* a scanned directory tree has at most MaxEntries entries below its root
MaxEntries == 3
\* config.retry_attempts ranges over 0..MaxRetry
MaxRetry == 2
\* a multipart file of the model has at most MaxParts parts (or is over the S3 limit)
MaxParts == 3
\* a scanned folder holds at most MaxFiles candidates
MaxFiles == 2
\* fileConcurrency ranges over 0..MaxFileConc
MaxFileConc == 2
\* partConcurrency ranges over 1..MaxPartConc
MaxPartConc == 1
\* a multipart file makes at most MaxPartAttempts part attempts (parts * tries)
MaxPartAttempts == 6
\* the candidates of a folder make at most this many attempts between them
MaxFolderAttempts == 3
\* at most MaxInstances uploaders are created
MaxInstances == 2
\* at most MaxConfigObjects configuration objects are loaded from the files
MaxConfigObjects == 3
\* at most MaxConfigCalls calls of getConfig and saveConfigValue are made
MaxConfigCalls == 2

----------------------------------------------------------------------------
(* Program constants *)

S3_MAX_PARTS_JS_MPU == 10000

\* defaultConfig.file_concurrency
DefaultFileConcurrency == 4

MiB == UnitsPerMiB
\* 1024 ** 3 bytes
GiB == 1024 * MiB
\* 5 * 1024 * 1024: the smallest chunk S3 accepts
MinChunkBytes == 5 * MiB

Min(a, b) == IF a < b THEN a ELSE b

\* Math.ceil(a / b) for a >= 0, b > 0
CeilDiv(a, b) == (a + b - 1) \div b

\* a JavaScript value: a number, or an object (which compares as NaN)
Num(k) == [type |-> "number", val |-> k]
Obj == [type |-> "object", val |-> 0]

\* JavaScript a < b for a number a and a value b
JsLess(a, b) == b.type = "number" /\ a < b.val

NoError == [kind |-> "none", attempt |-> -1]
Err(k, a) == [kind |-> k, attempt |-> a]

----------------------------------------------------------------------------
(* Partitioning of a multipart file *)

\* let chunkSize = mb * 1024 * 1024; if (chunkSize < 5 MiB) chunkSize = 5 MiB
ChunkSize(mb) ==
    IF mb * MiB < MinChunkBytes THEN MinChunkBytes ELSE mb * MiB

NumParts(fileSize, chunkSize) == CeilDiv(fileSize, chunkSize)

TooManyPartsOff(numParts) == FALSE

TooManyParts(numParts) == numParts > S3_MAX_PARTS_JS_MPU

PartSizeNoMin(i, fileSize, chunkSize) == chunkSize

\* Math.min(chunkSize, fileSize - i * chunkSize) for the 0-based index i
PartSize(i, fileSize, chunkSize) == Min(chunkSize, fileSize - i * chunkSize)

\* calculateSHA256ChecksumForBytes of the bytes offset .. offset + size - 1 of the
\* file: distinct byte ranges stand for distinct digests
ChecksumForBytes(offset, size) == <<offset, size>>

\* new UploadPartTaskJS_MPU(partNumber, offset, size, filePath)
UploadPartTaskJS_MPU(partNumber, offset, size) ==
    [partNumber |-> partNumber, offset |-> offset, size |-> size,
     data |-> FALSE, checksumSHA256 |-> <<>>, etag |-> <<>>,
     error |-> NoError, caught |-> NoError, retries |-> 0, waited |-> 0,
     st |-> "new", urlCalls |-> 0, putCalls |-> 0]

RECURSIVE BuildPartTasks(_, _, _, _)
\* for (i = 0; i < numParts; i++) { size = ...; if (size <= 0) continue; push }
BuildPartTasks(i, numParts, fileSize, chunkSize) ==
    IF i >= numParts THEN <<>>
    ELSE LET size == PartSize(i, fileSize, chunkSize)
             rest == BuildPartTasks(i + 1, numParts, fileSize, chunkSize)
         IN  IF size <= 0 THEN rest
             ELSE <<UploadPartTaskJS_MPU(i + 1, i * chunkSize, size)>> \o rest

----------------------------------------------------------------------------
(* State *)

VARIABLES
    entry,                        \* which exported entry point was called
    config,                       \* the effective configuration object
    folder,                       \* the directory tree given to the scan
    options,                      \* the progress callbacks the caller supplied
    cfgmod,                       \* config.js: the files, the cache, the uploaders
    totalSize,                    \* the byte total the scan returned
    fileConcurrency,              \* processFolderUpload's parameter
    partConcurrency,              \* handleMultipartUpload's parameter
    filesToUpload,                \* candidates: size, disallowed, status, errorMessage
    xfer,                         \* per candidate: the state of its transfer handler
    activeFileUploads,            \* the set of in-flight file promises (by index)
    currentIndex,                 \* the work cursor (0-based, as in the code)
    successfulUploads,
    failedUploads,
    overallUploadedBytesInFolder,
    results,                      \* the folder result list, in completion order
    folderProgress,               \* history: the folder progress events emitted
    retiredCalls,                 \* history: the calls made by the tasks that ended
    call                          \* the entry call: pending, or how it ended

vars == <<entry, config, folder, options, cfgmod, totalSize, fileConcurrency, partConcurrency, filesToUpload, xfer,
          activeFileUploads, currentIndex, successfulUploads, failedUploads,
          overallUploadedBytesInFolder, results, folderProgress, retiredCalls, call>>

folderVars == <<totalSize, activeFileUploads, currentIndex, successfulUploads, failedUploads,
                overallUploadedBytesInFolder, results, folderProgress, retiredCalls>>

paramVars == <<entry, config, folder, options, cfgmod, fileConcurrency, partConcurrency>>

\* options.onFileProgress, the onProgress of the handlers: not given, a function
\* that returns, or one that throws when it is told of a finished part
NoCallbacks == [onFileProgress |-> "none"]
ThrowingCallbacks == [onFileProgress |-> "throws"]

\* calls made to the control plane and to storage by one transfer
NoCalls ==
    [checksum |-> 0, start |-> 0, complete |-> 0, abort |-> 0,
     auth |-> 0, readFile |-> 0, post |-> 0, put |-> 0, confirm |-> 0]

IdleXfer ==
    [handler |-> "none", pc |-> "idle", attempt |-> 0, waited |-> 0, err |-> NoError,
     chunkSize |-> 0, numParts |-> 0, parts |-> <<>>, prepIdx |-> 0,
     session |-> "none", abortResult |-> "none", finishOrder |-> <<>>,
     uploadedPartsInfo |-> <<>>, completeParts |-> <<>>,
     totalBytesUploadedForFile |-> 0, shape |-> "none", storage |-> "none", status |-> 0,
     s3ETag |-> "null", confirmETag |-> "unset", location |-> "none", calls |-> NoCalls]

\* a file task that ended: its handler's frame is gone
Settled(x) == [IdleXfer EXCEPT !.handler = x.handler, !.pc = "settled"]

AddCalls(a, b) == [f \in DOMAIN a |-> a[f] + b[f]]

Bump(x, f) == [x EXCEPT !.calls[f] = @ + 1]

Throw(x, e) == [x EXCEPT !.pc = "thrown", !.err = e]

PartsInFlight(x) ==
    {p \in 1..Len(x.parts) : x.parts[p].st \in {"url", "put", "backoff"}}

PartsFinishedOrOneFailed(x) ==
    \/ \E p \in 1..Len(x.parts) : x.parts[p].st = "failed"
    \/ \A p \in 1..Len(x.parts) : x.parts[p].st \in {"done", "failed"}

\* every part promise has settled
PartsFinished(x) ==
    \A p \in 1..Len(x.parts) : x.parts[p].st \in {"done", "failed"}

----------------------------------------------------------------------------
(* Retry/backoff policy: for (attempt = 0; attempt <= retry_attempts; attempt++) *)

\* the loop condition attempt <= config.retry_attempts
LoopCond(attempt, cfg) == attempt <= cfg.retry_attempts

RetryExhaustedLate(attempt, cfg) == attempt > cfg.retry_attempts

\* if (attempt >= config.retry_attempts): the catch block gives up
RetryExhausted(attempt, cfg) == attempt >= cfg.retry_attempts

BackoffSecondsFixed(attempt) == 1

\* setTimeout(resolve, (2 ** attempt) * 1000): the wait after a failed attempt,
\* in seconds
BackoffSeconds(attempt) == 2 ^ attempt

----------------------------------------------------------------------------
(* _uploadSinglePartWithRetryJS_MPU: one part of a multipart transfer *)

\* top of the loop body up to the await of getPresignedUrlForPart
StartAttempt(pt, attempt, cfg) ==
    IF LoopCond(attempt, cfg)
    THEN [pt EXCEPT !.retries = attempt, !.st = "url", !.urlCalls = @ + 1]
    ELSE [pt EXCEPT !.st = "failed"]              \* falls out of the loop: return null

\* the catch block of one attempt
AttemptFailed(pt, e, cfg) ==
    IF RetryExhausted(pt.retries, cfg)
    THEN [pt EXCEPT !.caught = e, !.error = e, !.st = "failed"]  \* return null
    ELSE [pt EXCEPT !.caught = e, !.st = "backoff",              \* await setTimeout(...)
                    !.waited = @ + BackoffSeconds(pt.retries)]

\* getPresignedUrlForPart settled; on success the PUT is issued
PartUrlDone(pt, out, cfg) ==
    IF out = "ok"
    THEN [pt EXCEPT !.st = "put", !.putCalls = @ + 1]
    ELSE AttemptFailed(pt, Err("url", pt.retries), cfg)

\* headers.get("etag")?.replace(/"/g, "") of a part's PUT response: the header
\* can be missing, hold nothing between its quotes, or hold a tag
PartETag(pt, out) ==
    IF out \in {"etag", "etagthrow"} THEN <<pt.partNumber, pt.retries>> ELSE <<>>

PartPutDoneAnyETag(pt, out, cfg) ==
    IF out \in {"etag", "noetag", "emptyetag"}
    THEN [pt EXCEPT !.etag = PartETag(pt, out), !.st = "done"]
    ELSE AttemptFailed(pt, Err("put", pt.retries), cfg)

\* uploadPartToS3PresignedPut settled; the ETag is read from the headers
\* (with "etagthrow" the "Done" callback of line 54 throws inside the try, after
\* the etag was stored)
PartPutDone(pt, out, cfg) ==
    IF out \in {"etag", "noetag", "emptyetag"}
    THEN IF PartETag(pt, out) = <<>>                \* if (!etag) throw
         THEN AttemptFailed(pt, Err("noetag", pt.retries), cfg)
         ELSE [pt EXCEPT !.etag = PartETag(pt, out), !.st = "done"]
    ELSE IF out = "etagthrow"
    THEN AttemptFailed([pt EXCEPT !.etag = PartETag(pt, out)],
                       Err("callback", pt.retries), cfg)
    ELSE AttemptFailed(pt, Err("put", pt.retries), cfg)

\* the backoff timer fired: attempt++ and the next iteration
PartBackoffDone(pt, cfg) == StartAttempt(pt, pt.retries + 1, cfg)

----------------------------------------------------------------------------
(* handleMultipartUpload *)

\* from the call to the await of calculateSHA256Checksum
BeginMultipart(f, cfg) ==
    LET chunkSize == ChunkSize(cfg.multipart_chunk_size_mb)
        numParts  == NumParts(f.size, chunkSize)
        x == [IdleXfer EXCEPT !.handler = "multi"]
    IN  IF f.disallowed THEN Throw(x, Err("Disallowed", 0))
        ELSE IF TooManyParts(numParts) THEN Throw(x, Err("TooManyParts", 0))
        ELSE Bump([x EXCEPT !.pc = "checksum", !.chunkSize = chunkSize,
                            !.numParts = numParts], "checksum")

\* the overall checksum settled; on success startMultipartUpload is called
MpuChecksumDone(x, ok) ==
    IF ok THEN Bump([x EXCEPT !.pc = "start"], "start")
    ELSE Throw(x, Err("Checksum", 0))

\* all parts are prepared: the for loop creates every part promise at once
\* (partConcurrency appears only in the progress message)
DispatchParts(parts, cfg, partConc) ==
    [p \in 1..Len(parts) |-> StartAttempt(parts[p], 0, cfg)]

\* startMultipartUpload settled; the part list is built and the first part is read
MpuStartDone(x, f, out, cfg, partConc) ==
    IF out # "ok" THEN Throw(x, Err("InitiateFailed", 0))
    ELSE LET partTasks == BuildPartTasks(0, x.numParts, f.size, x.chunkSize)
             y == [x EXCEPT !.session = "open", !.parts = partTasks]
         IN  IF Len(partTasks) > 0
             THEN [y EXCEPT !.pc = "prepare", !.prepIdx = 1,
                            !.parts[1].st = "reading"]
             ELSE IF f.size > 0 THEN Throw(y, Err("NoParts", 0))
             ELSE [y EXCEPT !.pc = "uploading"]

\* what fsPromises.open / fileHandle.read can do for one part: read all of the
\* part's bytes, read fewer (the file shrank), or fail
ReadOutcomes == {"full", "short", "error"}

\* const { bytesRead } = await fileHandle.read(buffer, 0, this.size, this.offset)
BytesRead(pt, out) == IF out = "full" THEN pt.size ELSE pt.size - 1

\* UploadPartTaskJS_MPU.readAndChecksum: the part with its data and checksum,
\* or with its error set
readAndChecksum(pt, out) ==
    IF out = "error" THEN [pt EXCEPT !.error = Err("PartRead", pt.partNumber)]
    ELSE IF BytesRead(pt, out) # pt.size       \* if (bytesRead !== this.size) throw
    THEN [pt EXCEPT !.error = Err("ShortRead", pt.partNumber)]
    ELSE [pt EXCEPT !.data = TRUE,
                    !.checksumSHA256 = ChecksumForBytes(pt.offset, BytesRead(pt, out))]

\* a failure of readAndChecksum during preparation propagates as it is
PrepareFailed(x) ==
    Throw([x EXCEPT !.parts[x.prepIdx].st = "new"], x.parts[x.prepIdx].error)

\* a variant that hands a part to the uploader as soon as it has been read
MpuPartReadEager(x, out, cfg, partConc) ==
    LET pt == readAndChecksum(x.parts[x.prepIdx], out)
        y  == [x EXCEPT !.parts[x.prepIdx] = pt]
    IN  IF pt.error # NoError THEN PrepareFailed(y)
        ELSE IF x.prepIdx < Len(x.parts)
        THEN [y EXCEPT !.prepIdx = @ + 1,
                       !.parts[x.prepIdx] = StartAttempt(pt, 0, cfg),
                       !.parts[x.prepIdx + 1].st = "reading"]
        ELSE [y EXCEPT !.pc = "uploading",
                       !.parts[x.prepIdx] = StartAttempt(pt, 0, cfg)]

\* pt.readAndChecksum() of part prepIdx settled; after the last part the upload
\* of the parts begins
MpuPartRead(x, out, cfg, partConc) ==
    LET pt == readAndChecksum(x.parts[x.prepIdx], out)
        y  == [x EXCEPT !.parts[x.prepIdx] = [pt EXCEPT !.st = "new"]]
    IN  IF pt.error # NoError THEN PrepareFailed(y)
        ELSE IF x.prepIdx < Len(x.parts)
        THEN [y EXCEPT !.prepIdx = @ + 1, !.parts[x.prepIdx + 1].st = "reading"]
        ELSE [y EXCEPT !.pc = "uploading",
                       !.parts = DispatchParts(y.parts, cfg, partConc)]

\* { PartNumber, ETag, ChecksumSHA256 } returned by a fulfilled part promise
PartInfo(pt) ==
    [PartNumber |-> pt.partNumber, ETag |-> pt.etag, ChecksumSHA256 |-> pt.checksumSHA256]

RECURSIVE CollectFulfilled(_, _)
\* results.forEach: the non-null values, in promise order
CollectFulfilled(parts, p) ==
    IF p > Len(parts) THEN <<>>
    ELSE (IF parts[p].st = "done" THEN <<PartInfo(parts[p])>> ELSE <<>>)
         \o CollectFulfilled(parts, p + 1)

InsertLast(e, s) == s \o <<e>>

RECURSIVE InsertSorted(_, _)
\* e put before the first element with a larger PartNumber
InsertSorted(e, s) ==
    IF s = <<>> THEN <<e>>
    ELSE IF e.PartNumber < Head(s).PartNumber THEN <<e>> \o s
    ELSE <<Head(s)>> \o InsertSorted(e, Tail(s))

RECURSIVE SortByPartNumber(_)
\* uploadedPartsInfo.sort((a, b) => a.PartNumber - b.PartNumber)
SortByPartNumber(s) ==
    IF s = <<>> THEN <<>> ELSE InsertSorted(Head(s), SortByPartNumber(Tail(s)))

NotAllUploadedIfNone(nParts, nUploaded) == nParts > 0 /\ nUploaded = 0

\* partTasks.length > 0 && uploadedPartsInfo.length !== partTasks.length
NotAllUploaded(nParts, nUploaded) == nParts > 0 /\ nUploaded # nParts

\* Promise.allSettled resolved: abort, or sort and complete
MpuSettled(x) ==
    LET uploadedPartsInfo == CollectFulfilled(x.parts, 1)
        y == [x EXCEPT !.uploadedPartsInfo = uploadedPartsInfo]
    IN  IF NotAllUploaded(Len(x.parts), Len(uploadedPartsInfo))
        THEN Bump([y EXCEPT !.pc = "abortParts"], "abort")
        ELSE Bump([y EXCEPT !.pc = "complete",
                            !.completeParts = SortByPartNumber(uploadedPartsInfo)],
                  "complete")

\* how abortMultipartUpload settled
AbortResult(ok) == IF ok THEN "ok" ELSE "failed"

MpuAbortPartsDoneMasking(x, ok) ==
    Throw([x EXCEPT !.session = IF ok THEN "aborted" ELSE @,
                    !.abortResult = AbortResult(ok)],
          IF ok THEN Err("PartsFailed", 0) ELSE Err("AbortFailed", 0))

\* abortMultipartUpload settled on the failed-parts path: its failure is only logged
MpuAbortPartsDone(x, ok) ==
    Throw([x EXCEPT !.session = IF ok THEN "aborted" ELSE @,
                    !.abortResult = AbortResult(ok)],
          Err("PartsFailed", 0))

MpuCompleteDoneRetry(x, out) ==
    CASE out = "ok" ->
            [x EXCEPT !.pc = "returned", !.session = "completed", !.location = "location"]
      [] out = "nolocation" ->
            [x EXCEPT !.pc = "returned", !.session = "completed", !.location = "undefined"]
      [] OTHER ->
            IF x.calls.complete <= 1 THEN Bump(x, "complete")
            ELSE Bump([x EXCEPT !.pc = "abortComplete"], "abort")

\* completeMultipartUpload settled
MpuCompleteDone(x, out) ==
    CASE out = "ok" ->
            [x EXCEPT !.pc = "returned", !.session = "completed", !.location = "location"]
      [] out = "nolocation" ->
            [x EXCEPT !.pc = "returned", !.session = "completed", !.location = "undefined"]
      [] out = "nullbody" ->       \* completeResponse.Location throws inside the try
            Bump([x EXCEPT !.pc = "abortComplete", !.session = "completed"], "abort")
      [] OTHER ->
            Bump([x EXCEPT !.pc = "abortComplete"], "abort")

\* abortMultipartUpload settled on the failed-complete path
MpuAbortCompleteDone(x, ok) ==
    Throw([x EXCEPT !.session = IF ok /\ @ = "open" THEN "aborted" ELSE @,
                    !.abortResult = AbortResult(ok)],
          Err("CompleteFailed", 0))

\* a part's PUT settled, with the "Done" progress callback of the file
MpuPartPutDone(x, p, out, cfg) ==
    [x EXCEPT !.parts[p] = PartPutDone(x.parts[p], out, cfg),
              !.finishOrder = IF out = "etag" THEN Append(@, p) ELSE @,
              !.totalBytesUploadedForFile =
                  IF out \in {"etag", "etagthrow"} THEN @ + x.parts[p].size ELSE @]

----------------------------------------------------------------------------
(* handleSingleFileUpload *)

BeginSingleNoTypeCheck(f, cfg) ==
    Bump([IdleXfer EXCEPT !.handler = "single", !.pc = "checksum"], "checksum")

\* from the call to the await of calculateSHA256Checksum
BeginSingle(f, cfg) ==
    LET x == [IdleXfer EXCEPT !.handler = "single"]
    IN  IF f.disallowed THEN Throw(x, Err("Disallowed", 0))
        ELSE Bump([x EXCEPT !.pc = "checksum"], "checksum")

\* top of the authorization loop up to the await of getPresignedUrlSingle
SfuStartAttempt(x, attempt, cfg) ==
    IF LoopCond(attempt, cfg)
    THEN Bump([x EXCEPT !.pc = "auth", !.attempt = attempt], "auth")
    ELSE Throw(x, Err("NoPresignedUrl", attempt))  \* if (!presignedInfoResponse) throw

\* the checksum settled; on success the first authorization request is made
SfuChecksumDone(x, ok, cfg) ==
    IF ok THEN SfuStartAttempt(x, 0, cfg) ELSE Throw(x, Err("Checksum", 0))

\* getPresignedUrlSingle settled: retry, give up, or start the storage write
SfuAuthDone(x, out, cfg) ==
    CASE out = "fail" ->
            IF RetryExhausted(x.attempt, cfg)
            THEN Throw(x, Err("AuthFailed", x.attempt))
            ELSE [x EXCEPT !.pc = "backoff",
                           !.waited = @ + BackoffSeconds(x.attempt)]
      [] out = "empty" -> Throw(x, Err("NoPresignedUrl", x.attempt))
      [] out = "form"  -> [x EXCEPT !.pc = "post", !.shape = "form"]
      [] OTHER         -> Bump([x EXCEPT !.pc = "readFile", !.shape = "put"], "readFile")

\* the backoff timer fired
SfuBackoffDone(x, cfg) == SfuStartAttempt(x, x.attempt + 1, cfg)

\* fsPromises.readFile settled; on success the PUT is issued
SfuReadFileDone(x, ok) ==
    IF ok THEN Bump([x EXCEPT !.pc = "put"], "put") ELSE Throw(x, Err("ReadFile", 0))

\* what ApiClient.uploadToS3PresignedPost can settle with: the module never
\* imports fsPromises, so its first statement throws before any request is made
UploadToS3PresignedPostOutcomes == {"throw"}

\* a handler that is called on its own is given its client by the caller: its
\* storage requests can answer with any status, or fail
InjectedClientOutcomes == {"204etag", "204noetag", "200etag", "200noetag", "fail"}

\* s3Response.status as the handler reads it (0: no response was returned)
StatusOf(out) ==
    CASE out \in {"204etag", "204noetag"} -> 204
      [] out \in {"200etag", "200noetag"} -> 200
      [] OTHER -> 0

\* headers.get("etag")?.replace(/"/g, ""): undefined when the header is missing
SingleETag(out) == IF out \in {"204etag", "200etag"} THEN "etag" ELSE "undefined"

\* JavaScript v || null
OrNull(v) == IF v \in {"undefined", "null", ""} THEN "null" ELSE v

\* the storage write is done: confirmSingleUpload is called with s3ETag || null
SfuConfirm(x, etag) ==
    Bump([x EXCEPT !.pc = "confirm", !.s3ETag = etag, !.confirmETag = OrNull(etag)],
         "confirm")

\* how the storage write of a single unit settled: a 2xx response, or an error
\* (axios rejects any other status, and the helpers throw on it)
StorageResult(out) ==
    IF out \in {"204etag", "204noetag", "200etag", "200noetag"} THEN "ok" ELSE "failed"

SfuPostDoneAny2xx(x, out) ==
    LET y == [x EXCEPT !.storage = StorageResult(out), !.status = StatusOf(out)]
    IN  IF StatusOf(out) # 0 THEN SfuConfirm(y, SingleETag(out))
        ELSE Throw(y, Err("PostFailed", 0))

\* uploadToS3PresignedPost settled: only status 204 goes on to confirm
SfuPostDone(x, out) ==
    LET y == [x EXCEPT !.storage = StorageResult(out), !.status = StatusOf(out)]
    IN  CASE out \in {"204etag", "204noetag"} -> SfuConfirm(y, SingleETag(out))
          [] out \in {"200etag", "200noetag"} -> Throw(y, Err("PostStatus", 200))
          [] OTHER -> Throw(y, Err("PostFailed", 0))

SfuPutDoneConfirmAnyway(x, out) ==
    SfuConfirm([x EXCEPT !.storage = StorageResult(out), !.status = StatusOf(out)],
               SingleETag(out))

\* uploadPartToS3PresignedPut settled: only status 200 goes on to confirm
SfuPutDone(x, out) ==
    LET y == [x EXCEPT !.storage = StorageResult(out), !.status = StatusOf(out)]
    IN  CASE out \in {"200etag", "200noetag"} -> SfuConfirm(y, SingleETag(out))
          [] out \in {"204etag", "204noetag"} -> Throw(y, Err("PutStatus", 204))
          [] OTHER -> Throw(y, Err("PutFailed", 0))

SfuConfirmDoneRetry(x, ok) ==
    IF ok THEN [x EXCEPT !.pc = "returned"] ELSE Bump(x, "confirm")

\* confirmSingleUpload settled
SfuConfirmDone(x, ok) ==
    IF ok THEN [x EXCEPT !.pc = "returned"] ELSE Throw(x, Err("ConfirmFailed", 0))

----------------------------------------------------------------------------
(* Dispatch by size *)

\* config.multipart_threshold_gb * (1024 ** 3)
MultipartThresholdBytes(cfg) == cfg.multipart_threshold_gb * GiB

UseMultipartAtThreshold(size, cfg) == size >= MultipartThresholdBytes(cfg)

\* if (fileSize > multipartThresholdBytes) multipart else single
UseMultipart(size, cfg) == size > MultipartThresholdBytes(cfg)

\* the chosen handler, run up to its first await
BeginTransfer(f, cfg) ==
    IF UseMultipart(f.size, cfg) THEN BeginMultipart(f, cfg) ELSE BeginSingle(f, cfg)

----------------------------------------------------------------------------
(* processFolderUpload *)

ScheduleCondOffByOne(nActive, conc, idx, nFiles) ==
    conc.type = "number" /\ nActive <= conc.val /\ idx < nFiles

\* activeFileUploads.size < fileConcurrency && currentIndex < filesToUpload.length
ScheduleCond(nActive, conc, idx, nFiles) == JsLess(nActive, conc) /\ idx < nFiles

ScheduleSingle(active, idx, xf, files, conc, cfg) ==
    IF ScheduleCond(Cardinality(active), conc, idx, Len(files))
    THEN [active |-> active \cup {idx + 1}, idx |-> idx + 1,
          xf |-> [xf EXCEPT ![idx + 1] = BeginTransfer(files[idx + 1], cfg)]]
    ELSE [active |-> active, idx |-> idx, xf |-> xf]

RECURSIVE ScheduleLoopLastFirst(_, _, _, _, _, _)
ScheduleLoopLastFirst(active, idx, xf, files, conc, cfg) ==
    IF ScheduleCond(Cardinality(active), conc, idx, Len(files))
    THEN ScheduleLoopLastFirst(active \cup {Len(files) - idx}, idx + 1,
                               [xf EXCEPT ![Len(files) - idx] =
                                   BeginTransfer(files[Len(files) - idx], cfg)],
                               files, conc, cfg)
    ELSE [active |-> active, idx |-> idx, xf |-> xf]

RECURSIVE ScheduleLoop(_, _, _, _, _, _)
\* scheduleNextFileInFolder: each dispatched task runs up to its first await
ScheduleLoop(active, idx, xf, files, conc, cfg) ==
    IF ScheduleCond(Cardinality(active), conc, idx, Len(files))
    THEN ScheduleLoop(active \cup {idx + 1}, idx + 1,
                      [xf EXCEPT ![idx + 1] = BeginTransfer(files[idx + 1], cfg)],
                      files, conc, cfg)
    ELSE [active |-> active, idx |-> idx, xf |-> xf]

PollCondCursorOnly(nActive, idx, nFiles) == idx = nFiles

PollCondActiveOnly(nActive, idx, nFiles) == nActive = 0

PollCondPastEnd(nActive, idx, nFiles) == nActive = 0 /\ idx > nFiles

\* activeFileUploads.size === 0 && currentIndex === filesToUpload.length
PollCond(nActive, idx, nFiles) == nActive = 0 /\ idx = nFiles

\* a candidate as scanFolderForUpload pushes it
Candidate(size) ==
    [size |-> size, disallowed |-> FALSE, status |-> "pending", errorMessage |-> "none"]

----------------------------------------------------------------------------
(* scanFolderForUpload *)

\* A directory tree is a sequence of entries; entry n lies in the directory
\* parent (0 is the scanned root, otherwise an earlier entry), and readdir lists
\* the entries of a directory in the order of the sequence. Of an entry the scan
\* reads its kind (isDirectory / isFile), the verdict of the ignore patterns on
\* its path, whether its extension is denied, and its size.

IsPathIgnoredFilesOnly(item) == item.ignored /\ item.kind = "file"

\* isPathIgnored(itemPath, rootForRelativePath, ignorePatterns)
IsPathIgnored(item) == item.ignored

\* isFileTypeDisallowed(itemPath)
IsFileTypeDisallowed(item) == item.denied

NoScan == [filesToUpload |-> <<>>, totalSize |-> 0]

\* filesToUpload.push(...sub.filesToUpload); totalSize += sub.totalSize
ScanAdd(a, b) ==
    [filesToUpload |-> a.filesToUpload \o b.filesToUpload,
     totalSize |-> a.totalSize + b.totalSize]

RECURSIVE ScanItems(_, _, _)
\* the for loop of scanFolderForUpload(folderPath, ...) from item n on; a
\* directory is scanned by the recursive call
ScanItems(tree, folderPath, n) ==
    IF n > Len(tree) THEN NoScan
    ELSE LET item == tree[n]
             found ==
                 IF item.parent # folderPath THEN NoScan
                 ELSE IF IsPathIgnored(item) THEN NoScan
                 ELSE IF item.kind = "dir" THEN ScanItems(tree, n, n + 1)
                 ELSE IF item.kind = "file"
                      THEN IF IsFileTypeDisallowed(item) THEN NoScan
                           ELSE [filesToUpload |-> <<Candidate(item.size)>>,
                                 totalSize |-> item.size]
                      ELSE NoScan
         IN  ScanAdd(found, ScanItems(tree, folderPath, n + 1))

scanFolderForUpload(tree) == ScanItems(tree, 0, 1)

RECURSIVE SumSizes(_)
SumSizes(files) == IF files = <<>> THEN 0 ELSE Head(files).size + SumSizes(Tail(files))

FolderProgressEventSucceededOnly(loaded, total, ok, bad, totalFiles) ==
    [loaded |-> loaded, total |-> total, filesProcessed |-> ok, totalFiles |-> totalFiles]

\* the event updateOverallFolderProgress hands to onFolderProgress (or writes
\* as one line of the progress display when no callback was given)
FolderProgressEvent(loaded, total, ok, bad, totalFiles) ==
    [loaded |-> loaded, total |-> total, filesProcessed |-> ok + bad,
     totalFiles |-> totalFiles]

NoSummary ==
    [totalFiles |-> 0, successfulUploads |-> 0, failedUploads |-> 0,
     results |-> <<>>, given |-> FALSE]

Summary(n, ok, bad, res) ==
    [totalFiles |-> n, successfulUploads |-> ok, failedUploads |-> bad,
     results |-> res, given |-> TRUE]

Call(pc, e, summary) == [pc |-> pc, err |-> e, summary |-> summary]

EmptyFolderOutcomeThrows == Call("thrown", Err("NoFiles", 0), NoSummary)

\* if (filesToUpload.length === 0) return { totalFiles: 0, ..., results: [] }
EmptyFolderOutcome == Call("returned", NoError, Summary(0, 0, 0, <<>>))

FolderOutcomeAlwaysReturns(nFiles, ok, bad, res) ==
    Call("returned", NoError, Summary(nFiles, ok, bad, res))

\* the end of processFolderUpload once the wait is over
FolderOutcome(nFiles, ok, bad, res) ==
    IF bad > 0
    THEN Call("thrown", Err("FilesFailed", bad), NoSummary)
    ELSE Call("returned", NoError, Summary(nFiles, ok, bad, res))

----------------------------------------------------------------------------
(* Inputs *)

\* config.multipart_chunk_size_mb: below the 5 MiB floor, and above it
ChunkSizesMB == {1, 1024}

\* with no threshold every file is multipart, and small chunks keep its parts few
Configs ==
    {c \in [retry_attempts : 0..MaxRetry,
            multipart_threshold_gb : {0, 1},
            multipart_chunk_size_mb : ChunkSizesMB] :
        c.multipart_threshold_gb = 0 => c.multipart_chunk_size_mb = 1}

\* the retried requests a transfer of this size can make under this configuration:
\* the tries of each part, or the tries of the single authorization
Attempts(size, cfg) ==
    IF UseMultipart(size, cfg)
    THEN NumParts(size, ChunkSize(cfg.multipart_chunk_size_mb)) * (cfg.retry_attempts + 1)
    ELSE cfg.retry_attempts + 1

\* a size the model can follow: few enough parts, or more than S3 accepts
Tractable(size, cfg) ==
    LET n == NumParts(size, ChunkSize(cfg.multipart_chunk_size_mb))
    IN  /\ size >= 0
        /\ \/ ~UseMultipart(size, cfg)
           \/ n > S3_MAX_PARTS_JS_MPU
           \/ n <= MaxParts /\ Attempts(size, cfg) <= MaxPartAttempts

\* sizes of a file given to upload(): at and just above every multiple of the
\* chunk size, around the multipart threshold, the 12 MiB of the example, and one
\* part more than S3 accepts
FileSizes(cfg) ==
    LET chunk == ChunkSize(cfg.multipart_chunk_size_mb)
        thr   == MultipartThresholdBytes(cfg)
    IN  {s \in {k * chunk + d : k \in 0..MaxParts, d \in {0, 1}}
               \cup {thr, thr + 1}
               \cup {12 * MiB, S3_MAX_PARTS_JS_MPU * chunk + 1} : Tractable(s, cfg)}

\* sizes of the candidates of a folder: at the threshold and just above it
FolderSizes(cfg) ==
    LET thr == MultipartThresholdBytes(cfg)
    IN  {s \in {thr, thr + 1} : Tractable(s, cfg)}

RECURSIVE SumAttempts(_, _)
SumAttempts(sizes, cfg) ==
    IF sizes = <<>> THEN 0
    ELSE Attempts(Head(sizes), cfg) + SumAttempts(Tail(sizes), cfg)

\* the candidate lists a scan can return
ScanResults(cfg) ==
    {sizes \in UNION {[1..n -> FolderSizes(cfg)] : n \in 0..MaxFiles} :
        SumAttempts(sizes, cfg) <= MaxFolderAttempts}

\* the size of entry n: entries have distinct sizes, so a size names its file
EntrySize(n) == 2 ^ (n - 1)

EntryKinds == {"file", "dir", "other"}

\* the entries that can stand at position n of a tree
EntriesAt(n) ==
    {e \in [parent : 0..(n - 1), kind : EntryKinds, ignored : BOOLEAN,
            denied : BOOLEAN, size : {EntrySize(n)}] :
        e.denied => e.kind = "file"}

RECURSIVE TreesOfLen(_)
\* the trees of n entries: every entry lies in the root or in an earlier entry
\* that is a directory
TreesOfLen(n) ==
    IF n = 0 THEN {<<>>}
    ELSE {Append(p[1], p[2]) :
             p \in {q \in TreesOfLen(n - 1) \X EntriesAt(n) :
                       q[2].parent # 0 => q[1][q[2].parent].kind = "dir"}}

\* the directory trees given to a scan
Trees == UNION {TreesOfLen(n) : n \in 0..MaxEntries}

----------------------------------------------------------------------------
(* config.js: the configuration file, its module-level cache, and the
   CUEUploader instances that load it *)

\* the keys of the configuration the model follows: both can be overridden by a
\* constructor option and saved by saveConfigValue
ConfigKeys == {"file_concurrency", "multipart_threshold_gb"}

ConfigValues == {1, 4}

ConfigPaths == {"home", "custom"}

\* a configuration object, or the parsed content of a configuration file
ConfigContents == [ConfigKeys -> ConfigValues]

\* defaultConfig
defaultConfig == [k \in ConfigKeys |-> IF k = "file_concurrency" THEN 4 ELSE 1]

\* constructor options: 0 stands for an option that was not given
NoOverrides == [k \in ConfigKeys |-> 0]

NoSave == [valid |-> FALSE, path |-> "", key |-> "", value |-> 0, ok |-> FALSE,
           before |-> defaultConfig]

NoGet == [valid |-> FALSE, path |-> "", data |-> defaultConfig]

\* the module state of the runs that do not load a configuration file
NoConfigModule ==
    [files |-> <<>>, heap |-> <<>>, cached |-> 0, cachedPath |-> "",
     instances |-> <<>>, calls |-> 0, lastSave |-> NoSave, lastGet |-> NoGet]

\* ensureConfigExists: a missing file is created with the defaults
ensureConfigExists(m, path) ==
    IF m.files[path].exists THEN m
    ELSE [m EXCEPT !.files[path] = [exists |-> TRUE, data |-> defaultConfig]]

\* getConfig: the cached object when the cache holds this path's configuration,
\* otherwise a new object read from the file, which becomes the cached one.
\* Objects live in heap; an object is named by its index there.
getConfig(m, path) ==
    IF m.cached # 0 /\ m.cachedPath = path
    THEN [m |-> m, obj |-> m.cached]
    ELSE LET m1 == ensureConfigExists(m, path)
             m2 == [m1 EXCEPT !.heap = Append(@, m1.files[path].data),
                              !.cached = Len(m1.heap) + 1,
                              !.cachedPath = path]
         IN  [m |-> m2, obj |-> m2.cached]

\* if (this.options.x) this.config.x = this.options.x, for every option
ApplyOverrides(obj, opts) ==
    [k \in ConfigKeys |-> IF opts[k] # 0 THEN opts[k] ELSE obj[k]]

\* CUEUploader._initialize: ensure the file, load the configuration, write the
\* constructor's overrides into the loaded object
initialize(m, path, opts) ==
    LET m1 == ensureConfigExists(m, path)
        g  == getConfig(m1, path)
        m2 == [g.m EXCEPT !.heap[g.obj] = ApplyOverrides(@, opts)]
    IN  [m2 EXCEPT !.instances =
             Append(@, [path |-> path, options |-> opts, config |-> g.obj,
                        fileAtInit |-> m2.files[path].data]),
                   !.lastSave = NoSave, !.lastGet = NoGet]

\* saveConfigValue(key, value, path): set the key in the loaded object, write the
\* object to the file; on success drop the cache, on failure throw
saveConfigValue(m, path, key, value, writeOk) ==
    LET g      == getConfig(m, path)
        before == g.m.heap[g.obj]
        m1     == [g.m EXCEPT !.heap[g.obj][key] = value]
        m2     == IF writeOk
                  THEN [m1 EXCEPT !.files[path].data = m1.heap[g.obj], !.cached = 0]
                  ELSE m1
    IN  [m2 EXCEPT !.lastSave = [valid |-> TRUE, path |-> path, key |-> key,
                                 value |-> value, ok |-> writeOk, before |-> before],
                   !.lastGet = NoGet]

----------------------------------------------------------------------------
(* Initial state: an entry point has been called and awaits its first result *)

\* nothing is scanned, dispatched or finished yet
InitIdle ==
    /\ totalSize = 0
    /\ folderProgress = <<>>
    /\ filesToUpload = <<>>
    /\ xfer = <<>>
    /\ activeFileUploads = {}
    /\ currentIndex = 0
    /\ successfulUploads = 0
    /\ failedUploads = 0
    /\ overallUploadedBytesInFolder = 0
    /\ results = <<>>
    /\ retiredCalls = NoCalls

\* upload(sourcePath, collection) awaits fsPromises.stat
InitUpload ==
    /\ entry = "upload"
    /\ config \in Configs
    /\ folder = <<>>
    /\ options = NoCallbacks
    /\ cfgmod = NoConfigModule
    /\ fileConcurrency = Num(DefaultFileConcurrency)         \* config.file_concurrency
    /\ partConcurrency \in {Num(k) : k \in 1..MaxPartConc}   \* config.part_concurrency
    /\ call = Call("stat", NoError, NoSummary)
    /\ InitIdle

\* processFolderUpload(root, ..., fileConcurrency, partConcurrency) awaits the scan
InitFolder ==
    /\ entry = "processFolderUpload"
    /\ config \in Configs
    /\ folder = <<>>
    /\ options = NoCallbacks
    /\ cfgmod = NoConfigModule
    /\ fileConcurrency \in {Num(k) : k \in 0..MaxFileConc}
    /\ partConcurrency = Num(MaxPartConc)
    /\ call = Call("scan", NoError, NoSummary)
    /\ InitIdle

Init == InitUpload \/ InitFolder

\* processFolderUpload with an onFileProgress callback that throws on a
\* part_upload event, one file at a time
InitFolderCallback ==
    /\ entry = "processFolderUpload"
    /\ config \in Configs
    /\ folder = <<>>
    /\ options = ThrowingCallbacks
    /\ cfgmod = NoConfigModule
    /\ fileConcurrency = Num(1)
    /\ partConcurrency = Num(MaxPartConc)
    /\ call = Call("scan", NoError, NoSummary)
    /\ InitIdle

\* sizes of a file given to a transfer handler that is called on its own
\* (a handler takes any size it is given, so the parts are counted whatever the
\* threshold)
HandlerSizes(cfg) ==
    {s \in {0, 1, 12 * MiB} :
        LET n == NumParts(s, ChunkSize(cfg.multipart_chunk_size_mb))
        IN  n <= MaxParts /\ n * (cfg.retry_attempts + 1) <= MaxPartAttempts}

\* handleSingleFileUpload or handleMultipartUpload has been called on a file and
\* has run to its first await, or has thrown before it
InitHandler ==
    /\ entry \in {"handleSingleFileUpload", "handleMultipartUpload"}
    /\ config \in Configs
    /\ folder = <<>>
    /\ options = NoCallbacks
    /\ cfgmod = NoConfigModule
    /\ fileConcurrency = Num(DefaultFileConcurrency)
    /\ partConcurrency = Num(MaxPartConc)
    /\ call = Call("file", NoError, NoSummary)
    /\ totalSize = 0
    /\ folderProgress = <<>>
    /\ \E size \in HandlerSizes(config), dis \in BOOLEAN :
          LET f == [Candidate(size) EXCEPT !.disallowed = dis]
          IN  /\ filesToUpload = <<f>>
              /\ xfer = <<IF entry = "handleSingleFileUpload"
                           THEN BeginSingle(f, config)
                           ELSE BeginMultipart(f, config)>>
    /\ activeFileUploads = {}
    /\ currentIndex = 0
    /\ successfulUploads = 0
    /\ failedUploads = 0
    /\ overallUploadedBytesInFolder = 0
    /\ results = <<>>
    /\ retiredCalls = NoCalls

\* scanFolderForUpload(root, root, null, patterns) has been called on a tree
InitScan ==
    /\ entry = "scanFolderForUpload"
    /\ config \in {c \in Configs : c.retry_attempts = 0}
    /\ folder \in Trees
    /\ options = NoCallbacks
    /\ cfgmod = NoConfigModule
    /\ fileConcurrency = Num(DefaultFileConcurrency)
    /\ partConcurrency = Num(MaxPartConc)
    /\ call = Call("scan", NoError, NoSummary)
    /\ InitIdle

----------
(* CUEUploader.upload *)

\* fsPromises.stat settled on a regular file: the type check, then the handler
UploadFile ==
    /\ entry = "upload" /\ call.pc = "stat"
    /\ \E size \in FileSizes(config), dis \in BOOLEAN :
          LET f == [Candidate(size) EXCEPT !.disallowed = dis]
          IN  /\ filesToUpload' = <<f>>
              /\ xfer' = <<IF dis THEN Throw(IdleXfer, Err("Disallowed", 0))
                            ELSE BeginTransfer(f, config)>>
    /\ call' = [call EXCEPT !.pc = "file"]
    /\ UNCHANGED <<paramVars, folderVars>>

\* stat settled on a directory: doFolderUpload is called with this.globalArgs in
\* the place of fileConcurrency, so every later argument is shifted by one
UploadDirectory ==
    /\ entry = "upload" /\ call.pc = "stat"
    /\ fileConcurrency' = Obj
    /\ partConcurrency' = fileConcurrency
    /\ call' = [call EXCEPT !.pc = "scan"]
    /\ UNCHANGED <<entry, config, folder, options, cfgmod, filesToUpload, xfer, folderVars>>

\* stat failed, or the path is neither a file nor a directory
UploadStatFailed ==
    /\ entry = "upload" /\ call.pc = "stat"
    /\ call' = Call("thrown", Err("Stat", 0), NoSummary)
    /\ UNCHANGED <<paramVars, filesToUpload, xfer, folderVars>>

\* the handler of the file settled: upload returns its result or rethrows
UploadFileDone ==
    /\ entry = "upload" /\ call.pc = "file"
    /\ xfer[1].pc \in {"returned", "thrown"}
    /\ call' = Call(xfer[1].pc, xfer[1].err, NoSummary)
    /\ UNCHANGED <<paramVars, filesToUpload, xfer, folderVars>>

----------------------------------------------------------------------------
(* processFolderUpload: scan, schedule, wait *)

\* scanFolderForUpload settled; the two dynamic imports that follow have no
\* effect on the state and are part of this step
FolderScanned ==
    /\ call.pc = "scan"
    /\ \E sizes \in ScanResults(config) :
          LET files == [i \in 1..Len(sizes) |-> Candidate(sizes[i])]
              s == ScheduleLoop({}, 0, [i \in 1..Len(sizes) |-> IdleXfer],
                                files, fileConcurrency, config)
          IN  /\ filesToUpload' = files
              /\ totalSize' = SumSizes(files)
              /\ IF Len(files) = 0
                 THEN /\ call' = EmptyFolderOutcome
                      /\ UNCHANGED <<xfer, activeFileUploads, currentIndex, folderProgress>>
                 ELSE /\ call' = [call EXCEPT !.pc = "waiting"]
                      /\ folderProgress' =
                             <<FolderProgressEvent(overallUploadedBytesInFolder,
                                                   SumSizes(files), successfulUploads,
                                                   failedUploads, Len(files))>>
                      /\ xfer' = s.xf
                      /\ activeFileUploads' = s.active
                      /\ currentIndex' = s.idx
    /\ UNCHANGED <<paramVars, successfulUploads, failedUploads,
                   overallUploadedBytesInFolder, results, retiredCalls>>

\* readdir or stat failed during the scan
FolderScanFailed ==
    /\ call.pc = "scan"
    /\ call' = Call("thrown", Err("Scan", 0), NoSummary)
    /\ UNCHANGED <<paramVars, filesToUpload, xfer, folderVars>>

FileTaskOutcomeAlwaysMessage(fileTask, ok, error) ==
    [fileTask EXCEPT !.status = IF ok THEN "success" ELSE "failed",
                     !.errorMessage = IF ok THEN "undefined" ELSE error.kind]

\* fileTask.status = "success" after the handler returned; in the catch block
\* fileTask.status = "failed" and fileTask.errorMessage = error.message
FileTaskOutcome(fileTask, ok, error) ==
    [fileTask EXCEPT !.status = IF ok THEN "success" ELSE "failed",
                     !.errorMessage = IF ok THEN @ ELSE error.kind]

PushResultFirst(res, i, fileTask) ==
    <<[file |-> i, status |-> fileTask.status,
       errorMessage |-> fileTask.errorMessage]>> \o res

\* results.push({ ...fileTask, ...result }) or results.push(fileTask)
PushResult(res, i, fileTask) ==
    Append(res, [file |-> i, status |-> fileTask.status,
                 errorMessage |-> fileTask.errorMessage])

\* the rest of a file task once its handler settled: try/catch/finally
FileTaskSettle ==
    /\ call.pc = "waiting"
    /\ \E i \in activeFileUploads :
          /\ xfer[i].pc \in {"returned", "thrown"}
          /\ LET ok == xfer[i].pc = "returned"
                 ft == FileTaskOutcome(filesToUpload[i], ok, xfer[i].err)
                 s  == ScheduleLoop(activeFileUploads \ {i}, currentIndex,
                                    [xfer EXCEPT ![i] = Settled(@)],
                                    filesToUpload, fileConcurrency, config)
             IN  /\ filesToUpload' = [filesToUpload EXCEPT ![i] = ft]
                 /\ results' = PushResult(results, i, ft)
                 /\ successfulUploads' = successfulUploads + (IF ok THEN 1 ELSE 0)
                 /\ failedUploads' = failedUploads + (IF ok THEN 0 ELSE 1)
                 /\ overallUploadedBytesInFolder' =
                        overallUploadedBytesInFolder + (IF ok THEN ft.size ELSE 0)
                 /\ retiredCalls' = AddCalls(retiredCalls, xfer[i].calls)
                 /\ totalSize' = totalSize
                 /\ folderProgress' =
                        Append(folderProgress,
                               FolderProgressEvent(overallUploadedBytesInFolder', totalSize,
                                                   successfulUploads', failedUploads',
                                                   Len(filesToUpload)))
                 /\ xfer' = s.xf
                 /\ activeFileUploads' = s.active
                 /\ currentIndex' = s.idx
    /\ UNCHANGED <<paramVars, call>>

\* the interval callback finds the wait over: throw on failures, else return
FolderPoll ==
    /\ call.pc = "waiting"
    /\ PollCond(Cardinality(activeFileUploads), currentIndex, Len(filesToUpload))
    /\ call' = FolderOutcome(Len(filesToUpload), successfulUploads, failedUploads, results)
    /\ UNCHANGED <<paramVars, filesToUpload, xfer, folderVars>>

----------------------------------------------------------------------------
(* The awaited results of the transfer handlers *)

Running(i, handler, pc) == xfer[i].handler = handler /\ xfer[i].pc = pc

Resume(i, x) ==
    /\ xfer' = [xfer EXCEPT ![i] = x]
    /\ UNCHANGED <<paramVars, filesToUpload, folderVars, call>>

SfuChecksum ==
    \E i \in DOMAIN xfer, ok \in BOOLEAN :
        Running(i, "single", "checksum") /\ Resume(i, SfuChecksumDone(xfer[i], ok, config))

SfuAuth ==
    \E i \in DOMAIN xfer, out \in {"form", "direct", "empty", "fail"} :
        Running(i, "single", "auth") /\ Resume(i, SfuAuthDone(xfer[i], out, config))

SfuBackoff ==
    \E i \in DOMAIN xfer :
        Running(i, "single", "backoff") /\ Resume(i, SfuBackoffDone(xfer[i], config))

SfuReadFile ==
    \E i \in DOMAIN xfer, ok \in BOOLEAN :
        Running(i, "single", "readFile") /\ Resume(i, SfuReadFileDone(xfer[i], ok))

\* the client is the library's ApiClient, or the one given to the handler
InjectedClient == entry \in {"handleSingleFileUpload", "handleMultipartUpload"}

PostOutcomes ==
    IF InjectedClient THEN InjectedClientOutcomes ELSE UploadToS3PresignedPostOutcomes

\* ApiClient.uploadPartToS3PresignedPut throws unless the status is 200
PutOutcomes ==
    IF InjectedClient THEN InjectedClientOutcomes ELSE {"200etag", "200noetag", "fail"}

SfuPost ==
    \E i \in DOMAIN xfer, out \in PostOutcomes :
        Running(i, "single", "post") /\ Resume(i, SfuPostDone(xfer[i], out))

SfuPut ==
    \E i \in DOMAIN xfer, out \in PutOutcomes :
        Running(i, "single", "put") /\ Resume(i, SfuPutDone(xfer[i], out))

SfuConfirmed ==
    \E i \in DOMAIN xfer, ok \in BOOLEAN :
        Running(i, "single", "confirm") /\ Resume(i, SfuConfirmDone(xfer[i], ok))

MpuChecksum ==
    \E i \in DOMAIN xfer, ok \in BOOLEAN :
        Running(i, "multi", "checksum") /\ Resume(i, MpuChecksumDone(xfer[i], ok))

MpuStart ==
    \E i \in DOMAIN xfer, out \in {"ok", "missing", "fail"} :
        /\ Running(i, "multi", "start")
        /\ Resume(i, MpuStartDone(xfer[i], filesToUpload[i], out, config, partConcurrency))

MpuPrepare ==
    \E i \in DOMAIN xfer, out \in ReadOutcomes :
        /\ Running(i, "multi", "prepare")
        /\ Resume(i, MpuPartRead(xfer[i], out, config, partConcurrency))

PartUrl ==
    \E i \in DOMAIN xfer, out \in {"ok", "fail"} :
        /\ Running(i, "multi", "uploading")
        /\ \E p \in 1..Len(xfer[i].parts) :
              /\ xfer[i].parts[p].st = "url"
              /\ Resume(i, [xfer[i] EXCEPT !.parts[p] = PartUrlDone(@, out, config)])

\* what a part's PUT and the "Done" notification after it can do
PartPutOutcomes ==
    {"etag", "noetag", "emptyetag", "fail"}
        \cup (IF options.onFileProgress = "throws" THEN {"etagthrow"} ELSE {})

PartPut ==
    \E i \in DOMAIN xfer, out \in PartPutOutcomes :
        /\ Running(i, "multi", "uploading")
        /\ \E p \in 1..Len(xfer[i].parts) :
              /\ xfer[i].parts[p].st = "put"
              /\ Resume(i, MpuPartPutDone(xfer[i], p, out, config))

PartBackoff ==
    \E i \in DOMAIN xfer :
        /\ Running(i, "multi", "uploading")
        /\ \E p \in 1..Len(xfer[i].parts) :
              /\ xfer[i].parts[p].st = "backoff"
              /\ Resume(i, [xfer[i] EXCEPT !.parts[p] = PartBackoffDone(@, config)])

MpuAllSettled ==
    \E i \in DOMAIN xfer :
        /\ Running(i, "multi", "uploading")
        /\ PartsFinished(xfer[i])
        /\ Resume(i, MpuSettled(xfer[i]))

MpuAbortParts ==
    \E i \in DOMAIN xfer, ok \in BOOLEAN :
        Running(i, "multi", "abortParts") /\ Resume(i, MpuAbortPartsDone(xfer[i], ok))

MpuComplete ==
    \E i \in DOMAIN xfer, out \in {"ok", "nolocation", "nullbody", "fail"} :
        Running(i, "multi", "complete") /\ Resume(i, MpuCompleteDone(xfer[i], out))

MpuAbortComplete ==
    \E i \in DOMAIN xfer, ok \in BOOLEAN :
        Running(i, "multi", "abortComplete") /\ Resume(i, MpuAbortCompleteDone(xfer[i], ok))

\* the awaited results of the two transfer handlers
HandlerStep ==
    \/ SfuChecksum
    \/ SfuAuth
    \/ SfuBackoff
    \/ SfuReadFile
    \/ SfuPost
    \/ SfuPut
    \/ SfuConfirmed
    \/ MpuChecksum
    \/ MpuStart
    \/ MpuPrepare
    \/ PartUrl
    \/ PartPut
    \/ PartBackoff
    \/ MpuAllSettled
    \/ MpuAbortParts
    \/ MpuComplete
    \/ MpuAbortComplete

\* a call of CUEUploader.upload on a file or on a directory
NextUpload ==
    \/ UploadFile
    \/ UploadDirectory
    \/ UploadStatFailed
    \/ UploadFileDone
    \/ FolderScanned
    \/ FolderScanFailed
    \/ HandlerStep

\* a call of processFolderUpload
NextFolder ==
    \/ FolderScanned
    \/ FolderScanFailed
    \/ FileTaskSettle
    \/ FolderPoll
    \/ HandlerStep

Next == NextUpload \/ FileTaskSettle \/ FolderPoll

Spec == Init /\ [][Next]_vars

SpecUpload == InitUpload /\ [][NextUpload]_vars

SpecFolder == InitFolder /\ [][NextFolder]_vars

\* the event loop runs every continuation that is ready: an awaited request or
\* timer settles, the rest of a file task runs once its handler settled, and the
\* 200 ms interval keeps firing
FolderFairness ==
    /\ WF_vars(FolderScanned \/ FolderScanFailed)
    /\ WF_vars(HandlerStep)
    /\ WF_vars(FileTaskSettle)
    /\ WF_vars(FolderPoll)

\* a folder upload whose file progress callback throws
SpecFolderCallback == InitFolderCallback /\ [][NextFolder]_vars

\* a folder upload in which every awaited operation eventually settles
SpecFolderFair == InitFolder /\ [][NextFolder]_vars /\ FolderFairness

\* the promise of a handler that was called on its own settles
HandlerSettled ==
    /\ entry \in {"handleSingleFileUpload", "handleMultipartUpload"}
    /\ call.pc = "file"
    /\ xfer[1].pc \in {"returned", "thrown"}
    /\ call' = Call(xfer[1].pc, xfer[1].err, NoSummary)
    /\ UNCHANGED <<paramVars, filesToUpload, xfer, folderVars>>

\* a file given to upload(), or to one of the two handlers directly
SpecFile == (InitUpload \/ InitHandler) /\ [][NextUpload \/ HandlerSettled]_vars

\* the scan of a directory tree returns its candidates and their byte total
ScanFolder ==
    /\ entry = "scanFolderForUpload" /\ call.pc = "scan"
    /\ LET scanned == scanFolderForUpload(folder)
       IN  /\ filesToUpload' = scanned.filesToUpload
           /\ totalSize' = scanned.totalSize
    /\ call' = [call EXCEPT !.pc = "returned"]
    /\ UNCHANGED <<paramVars, xfer, activeFileUploads, currentIndex, successfulUploads,
                   failedUploads, overallUploadedBytesInFolder, results, folderProgress,
                   retiredCalls>>

SpecScan == InitScan /\ [][ScanFolder]_vars

\* the configuration files as the process finds them: missing, or with a content
InitConfig ==
    /\ entry = "CUEUploader"
    /\ config \in {c \in Configs : c.retry_attempts = 0 /\ c.multipart_threshold_gb = 1
                                    /\ c.multipart_chunk_size_mb = 1}
    /\ folder = <<>>
    /\ options = NoCallbacks
    /\ fileConcurrency = Num(DefaultFileConcurrency)
    /\ partConcurrency = Num(MaxPartConc)
    /\ call = Call("idle", NoError, NoSummary)
    /\ InitIdle
    /\ \E files \in [ConfigPaths -> [exists : BOOLEAN, data : ConfigContents]] :
          /\ \A p \in ConfigPaths : ~files[p].exists => files[p].data = defaultConfig
          /\ cfgmod = [NoConfigModule EXCEPT !.files = files]

ConfigUnchanged ==
    UNCHANGED <<entry, config, folder, options, fileConcurrency, partConcurrency,
                filesToUpload, xfer, folderVars, call>>

\* new CUEUploader(options) and its first use, which runs _initialize
ConfigInitialize ==
    /\ Len(cfgmod.instances) < MaxInstances
    /\ \E path \in ConfigPaths, opts \in [ConfigKeys -> ConfigValues \cup {0}] :
          /\ (cfgmod.cached = 0 \/ cfgmod.cachedPath # path) =>
                 Len(cfgmod.heap) < MaxConfigObjects
          /\ cfgmod' = initialize(cfgmod, path, opts)
    /\ ConfigUnchanged

\* getConfig(path) is called and its result is looked at
ConfigGet ==
    /\ cfgmod.calls < MaxConfigCalls
    /\ \E path \in ConfigPaths :
          /\ (cfgmod.cached = 0 \/ cfgmod.cachedPath # path) =>
                 Len(cfgmod.heap) < MaxConfigObjects
          /\ LET g == getConfig(cfgmod, path)
             IN  cfgmod' = [g.m EXCEPT !.calls = @ + 1,
                                       !.lastGet = [valid |-> TRUE, path |-> path,
                                                    data |-> g.m.heap[g.obj]]]
    /\ ConfigUnchanged

\* saveConfigValue(key, value, path) is called; the write succeeds or fails
ConfigSave ==
    /\ cfgmod.calls < MaxConfigCalls
    /\ \E path \in ConfigPaths, key \in ConfigKeys, value \in ConfigValues,
          writeOk \in BOOLEAN :
          /\ (cfgmod.cached = 0 \/ cfgmod.cachedPath # path) =>
                 Len(cfgmod.heap) < MaxConfigObjects
          /\ cfgmod' = [saveConfigValue(cfgmod, path, key, value, writeOk)
                           EXCEPT !.calls = @ + 1]
    /\ ConfigUnchanged

NextConfig ==
    \/ ConfigInitialize
    \/ ConfigGet
    \/ ConfigSave

\* uploaders and configuration calls on the configuration files of one process
SpecConfig == InitConfig /\ [][NextConfig]_vars

----------------------------------------------------------------------------
(* Properties *)

Multi(i) == xfer[i].handler = "multi"
Single(i) == xfer[i].handler = "single"
Ended(i) == xfer[i].pc \in {"returned", "thrown"}
IsFolderCall == entry = "processFolderUpload"

\* the parts of transfer i without an ETag
NoETag(i) == {p \in 1..Len(xfer[i].parts) : xfer[i].parts[p].etag = <<>>}

\* the part promises of transfer i have been created
Dispatched(i) ==
    /\ Len(xfer[i].parts) > 0
    /\ \A p \in 1..Len(xfer[i].parts) : xfer[i].parts[p].st \notin {"new", "reading"}

\* C1: a multipart transfer that fails after startMultipartUpload returned a
\* session id and key, and before a successful complete, has called
\* abortMultipartUpload by the time its error reaches the caller.
C1_NoDanglingSession ==
    \A i \in DOMAIN xfer :
        (Multi(i) /\ xfer[i].pc = "thrown" /\ xfer[i].session = "open")
            => xfer[i].calls.abort >= 1

\* C2: once the parts of a multipart transfer are dispatched, complete is called
\* only if every part has a non-empty ETag; a transfer that ends with a part
\* lacking an ETag never called complete, called abort exactly once, and failed.
C2_CompleteOnlyWithAllETags ==
    \A i \in DOMAIN xfer :
        (Multi(i) /\ Dispatched(i)) =>
            /\ xfer[i].calls.complete > 0 => NoETag(i) = {}
            /\ xfer[i].calls.complete <= 1
            /\ NoETag(i) # {} => xfer[i].calls.complete = 0 /\ xfer[i].pc # "returned"
            /\ (Ended(i) /\ NoETag(i) # {}) =>
                   xfer[i].calls.abort = 1 /\ xfer[i].pc = "thrown"

\* C2 witness: a transfer failed with one part exhausted and another uploaded.
C2_Witness ==
    \E i \in DOMAIN xfer :
        /\ Multi(i) /\ xfer[i].pc = "thrown" /\ xfer[i].calls.abort = 1
        /\ \E p, q \in 1..Len(xfer[i].parts) :
              /\ xfer[i].parts[p].st = "failed" /\ xfer[i].parts[p].etag = <<>>
              /\ xfer[i].parts[q].st = "done" /\ xfer[i].parts[q].etag # <<>>

\* C3: within one multipart transfer at most partConcurrency parts are in flight
\* (from a part's URL request to the end of its PUT, retry waits included), and
\* complete or abort is called only after every part has finished.
C3_PartConcurrencyBound ==
    \A i \in DOMAIN xfer :
        Multi(i) =>
            /\ partConcurrency.type = "number"
                   => Cardinality(PartsInFlight(xfer[i])) <= partConcurrency.val
            /\ (xfer[i].calls.complete + xfer[i].calls.abort > 0 /\ Dispatched(i))
                   => PartsFinished(xfer[i])

\* the file tasks that are dispatched and not yet finished
ActiveTasks == {i \in DOMAIN xfer : xfer[i].pc \notin {"idle", "settled"}}

\* C4: with fileConcurrency = K >= 1 at most K file tasks are active at any time.
C4_FileConcurrencyBound ==
    (IsFolderCall /\ fileConcurrency.type = "number" /\ fileConcurrency.val >= 1) =>
        /\ Cardinality(ActiveTasks) <= fileConcurrency.val
        /\ ActiveTasks = activeFileUploads

\* C4 witness: every slot is taken while a candidate still waits for one.
C4_Witness ==
    /\ IsFolderCall /\ fileConcurrency.val >= 1
    /\ Cardinality(ActiveTasks) = fileConcurrency.val
    /\ currentIndex < Len(filesToUpload)
    /\ \E i \in ActiveTasks : xfer[i].pc \notin {"checksum"}

\* C5: when a file of a folder upload failed, the folder call signals the failure
\* with the count of failed files and the caller still gets the per-file results.
C5_FailureCarriesResults ==
    (IsFolderCall /\ call.pc \in {"returned", "thrown"} /\ failedUploads > 0) =>
        /\ call.pc = "thrown" => call.err = Err("FilesFailed", failedUploads)
        /\ call.summary.given
        /\ call.summary.failedUploads = failedUploads
        /\ Len(call.summary.results) = Len(filesToUpload)

\* C6: with retry_attempts = N the retried operation is tried at most N+1 times;
\* one that fails every time is tried exactly N+1 times and ends with the error of
\* try N+1; one that succeeds on try k is tried exactly k times. This holds for the
\* single-unit authorization request and for each part's (URL request + PUT) pair.
C6_RetryAttempts ==
    \A i \in DOMAIN xfer :
        /\ Single(i) =>
              /\ xfer[i].calls.auth <= config.retry_attempts + 1
              /\ xfer[i].pc = "backoff" => xfer[i].calls.auth <= config.retry_attempts
              /\ xfer[i].err.kind = "AuthFailed" =>
                    /\ xfer[i].calls.auth = config.retry_attempts + 1
                    /\ xfer[i].err.attempt = config.retry_attempts
              /\ (xfer[i].shape # "none" \/ xfer[i].err.kind = "NoPresignedUrl") =>
                    xfer[i].calls.auth = xfer[i].attempt + 1
        /\ Multi(i) =>
              \A p \in 1..Len(xfer[i].parts) :
                  LET pt == xfer[i].parts[p]
                  IN  /\ pt.urlCalls <= config.retry_attempts + 1
                      /\ pt.putCalls <= pt.urlCalls
                      /\ pt.st = "failed" =>
                            /\ pt.urlCalls = config.retry_attempts + 1
                            /\ pt.error.kind \in {"url", "put", "noetag"}
                            /\ pt.error.attempt = config.retry_attempts
                            /\ pt.etag = <<>>
                      /\ pt.st = "done" =>
                            /\ pt.urlCalls = pt.etag[2] + 1
                            /\ pt.putCalls >= 1
                            /\ pt.error = NoError

\* C6 witness: with N >= 1 a part failed all its N+1 tries while another part
\* succeeded on its last try.
C6_Witness ==
    \E i \in DOMAIN xfer :
        /\ Multi(i) /\ config.retry_attempts >= 1
        /\ \E p, q \in 1..Len(xfer[i].parts) :
              /\ xfer[i].parts[p].st = "failed"
              /\ xfer[i].parts[p].urlCalls = config.retry_attempts + 1
              /\ xfer[i].parts[q].st = "done"
              /\ xfer[i].parts[q].urlCalls = config.retry_attempts + 1

\* the multipart threshold in model units, from the configured GiB
ThresholdOf(cfg) == cfg.multipart_threshold_gb * 1024 * UnitsPerMiB

\* a transfer that made no call to a multipart endpoint
NoMultipartCalls(x) ==
    /\ x.calls.start = 0 /\ x.calls.complete = 0 /\ x.calls.abort = 0
    /\ x.parts = <<>> /\ x.session = "none"

\* a transfer that made no call to a single-unit endpoint
NoSingleCalls(x) ==
    x.calls.auth = 0 /\ x.calls.post = 0 /\ x.calls.put = 0 /\ x.calls.confirm = 0

RECURSIVE SumStart(_)
SumStart(xs) == IF xs = <<>> THEN 0 ELSE Head(xs).calls.start + SumStart(Tail(xs))

\* C7: a file of size <= threshold is uploaded by the single-unit handler and calls
\* no multipart endpoint; a file of size > threshold is uploaded by the multipart
\* handler and starts at most one session; in a folder upload the sessions started
\* are at most the candidates above the threshold.
C7_DispatchBySize ==
    /\ \A i \in DOMAIN xfer :
          xfer[i].handler # "none" =>
              IF filesToUpload[i].size <= ThresholdOf(config)
              THEN Single(i) /\ NoMultipartCalls(xfer[i])
              ELSE Multi(i) /\ NoSingleCalls(xfer[i]) /\ xfer[i].calls.start <= 1
    /\ retiredCalls.start + SumStart(xfer)
          <= Cardinality({i \in DOMAIN filesToUpload :
                             filesToUpload[i].size > ThresholdOf(config)})

\* C7 witness: a folder with a file at the threshold, uploading as a single unit,
\* next to a file above it whose multipart session is started.
C7_Witness ==
    /\ IsFolderCall
    /\ \E i, j \in DOMAIN xfer :
          /\ filesToUpload[i].size = ThresholdOf(config)
          /\ Single(i) /\ xfer[i].calls.auth >= 1
          /\ filesToUpload[j].size > ThresholdOf(config)
          /\ Multi(j) /\ xfer[j].calls.start = 1

\* max(configuredMB * 1 MiB, 5 MiB)
EffectiveChunk(cfg) ==
    IF cfg.multipart_chunk_size_mb > 5
    THEN cfg.multipart_chunk_size_mb * UnitsPerMiB
    ELSE 5 * UnitsPerMiB

RECURSIVE SumPartSizes(_)
SumPartSizes(parts) ==
    IF parts = <<>> THEN 0 ELSE Head(parts).size + SumPartSizes(Tail(parts))

\* the part list of transfer i has been built
Partitioned(i) == Multi(i) /\ xfer[i].session # "none" /\ filesToUpload[i].size > 0

\* C8: the parts of a file of size > 0 number ceil(size / effectiveChunk), with
\* effectiveChunk = max(configuredMB * 1 MiB, 5 MiB); every part but the last has
\* length effectiveChunk, the last has size - (partCount - 1) * effectiveChunk, in
\* 1..effectiveChunk, and the lengths sum to size; 12 MiB in 5 MiB chunks gives
\* parts of 5, 5 and 2 MiB.
C8_Partitioning ==
    \A i \in DOMAIN xfer :
        Partitioned(i) =>
            LET size  == filesToUpload[i].size
                chunk == EffectiveChunk(config)
                parts == xfer[i].parts
                n     == Len(parts)
            IN  /\ n >= 1
                /\ n * chunk >= size /\ (n - 1) * chunk < size
                /\ \A p \in 1..(n - 1) : parts[p].size = chunk
                /\ parts[n].size = size - (n - 1) * chunk
                /\ parts[n].size \in 1..chunk
                /\ SumPartSizes(parts) = size
                /\ (size = 12 * UnitsPerMiB /\ chunk = 5 * UnitsPerMiB) =>
                       /\ n = 3
                       /\ parts[1].size = 5 * UnitsPerMiB
                       /\ parts[2].size = 5 * UnitsPerMiB
                       /\ parts[3].size = 2 * UnitsPerMiB

\* C8 witness: the 12 MiB file is partitioned with the 5 MiB floor as chunk size.
C8_Witness ==
    \E i \in DOMAIN xfer :
        /\ Partitioned(i)
        /\ config.multipart_chunk_size_mb < 5
        /\ filesToUpload[i].size = 12 * UnitsPerMiB
        /\ Len(xfer[i].parts) = 3
        /\ xfer[i].parts[3].size = 2 * UnitsPerMiB

\* the file is multipart and needs more parts than S3 accepts
OverPartLimit(i) ==
    /\ filesToUpload[i].size > ThresholdOf(config)
    /\ filesToUpload[i].size > 10000 * EffectiveChunk(config)

\* C9: the part numbers of a session are exactly 1..partCount, part n starts at
\* offset (n - 1) * effectiveChunk, partCount is at most 10000, and a file that
\* would need more parts fails before any control-plane call: no session starts.
C9_PartNumbersAndLimit ==
    \A i \in DOMAIN xfer :
        Multi(i) =>
            /\ Len(xfer[i].parts) <= 10000
            /\ \A p \in 1..Len(xfer[i].parts) :
                  /\ xfer[i].parts[p].partNumber = p
                  /\ xfer[i].parts[p].offset = (p - 1) * EffectiveChunk(config)
            /\ Partitioned(i) => Len(xfer[i].parts) = xfer[i].numParts
            /\ OverPartLimit(i) =>
                  /\ xfer[i].pc = "thrown"
                  /\ xfer[i].calls = NoCalls
                  /\ xfer[i].session = "none"
                  /\ xfer[i].parts = <<>>

\* C9 witness: a file of 10001 parts was rejected.
C9_Witness ==
    \E i \in DOMAIN xfer :
        /\ Multi(i) /\ OverPartLimit(i)
        /\ filesToUpload[i].size = 10000 * EffectiveChunk(config) + 1
        /\ xfer[i].err.kind = "TooManyParts"

\* C10: the folder call ends only when every candidate has a terminal status and
\* none is pending or in flight; and while it waits, a candidate is left
\* undispatched only as long as all fileConcurrency slots are taken, whatever
\* failed before.
C10_AllCandidatesFinish ==
    IsFolderCall =>
        /\ (call.pc \in {"returned", "thrown"} /\ call.err.kind # "Scan") =>
              /\ \A i \in DOMAIN filesToUpload :
                    /\ filesToUpload[i].status \in {"success", "failed"}
                    /\ xfer[i].pc = "settled"
              /\ activeFileUploads = {}
              /\ currentIndex = Len(filesToUpload)
              /\ Len(results) = Len(filesToUpload)
              /\ successfulUploads + failedUploads = Len(filesToUpload)
        /\ (call.pc = "waiting" /\ fileConcurrency.val >= 1
                /\ currentIndex < Len(filesToUpload)) =>
              Cardinality(ActiveTasks) = fileConcurrency.val
        /\ \A i \in DOMAIN filesToUpload :
              filesToUpload[i].status = "pending" <=> xfer[i].pc # "settled"

\* C10 witness: the first file failed, the file dispatched after it succeeded,
\* and then the folder call ended.
C10_Witness ==
    /\ IsFolderCall /\ call.pc = "thrown" /\ fileConcurrency.val = 1
    /\ Len(filesToUpload) >= 2
    /\ filesToUpload[1].status = "failed"
    /\ filesToUpload[2].status = "success"

\* a file task finishes in this step: its try/catch/finally runs
TaskFinishes(i) ==
    /\ i \in DOMAIN xfer /\ i \in DOMAIN xfer'
    /\ xfer[i].pc \in {"returned", "thrown"} /\ xfer'[i].pc = "settled"

\* C11: the folder scheduler is a greedy sliding window. While the folder call
\* waits, either exactly fileConcurrency tasks are in flight or no undispatched
\* candidate remains; and the step in which a task finishes while undispatched
\* candidates remain dispatches the next candidate itself.
C11_GreedySlidingWindow ==
    /\ [](IsFolderCall /\ call.pc = "waiting" =>
             \/ Cardinality(activeFileUploads) = fileConcurrency.val
             \/ currentIndex = Len(filesToUpload))
    /\ [][(IsFolderCall /\ currentIndex < Len(filesToUpload)
              /\ \E i \in DOMAIN xfer : TaskFinishes(i)) =>
             /\ currentIndex' = currentIndex + 1
             /\ (currentIndex + 1) \in activeFileUploads'
             /\ xfer[currentIndex + 1].pc = "idle"
             /\ xfer'[currentIndex + 1].pc \notin {"idle", "settled"}
             /\ Cardinality(activeFileUploads') = Cardinality(activeFileUploads)]_vars

\* C11 witness: the first file finished and the second took its slot at once,
\* while the folder call still waits.
C11_Witness ==
    /\ IsFolderCall /\ call.pc = "waiting" /\ fileConcurrency.val = 1
    /\ Len(filesToUpload) = 2
    /\ xfer[1].pc = "settled" /\ Len(results) = 1
    /\ activeFileUploads = {2} /\ xfer[2].pc \notin {"idle", "settled"}

\* a step of the candidate list: created all pending, then per candidate at most
\* one change of status
StatusStep ==
    /\ (filesToUpload = <<>>) =>
          \A i \in DOMAIN filesToUpload' :
              /\ filesToUpload'[i].status = "pending"
              /\ filesToUpload'[i].errorMessage = "none"
    /\ (filesToUpload # <<>>) =>
          /\ DOMAIN filesToUpload' = DOMAIN filesToUpload
          /\ \A j \in DOMAIN filesToUpload :
                /\ filesToUpload[j].status # "pending" =>
                       filesToUpload'[j] = filesToUpload[j]
                /\ filesToUpload'[j].status # filesToUpload[j].status =>
                       /\ filesToUpload'[j].status \in {"success", "failed"}
                       /\ TaskFinishes(j)
                /\ filesToUpload'[j].errorMessage # filesToUpload[j].errorMessage =>
                       /\ filesToUpload[j].status = "pending"
                       /\ filesToUpload'[j].status = "failed"

\* C12: a candidate's status starts as pending, changes once, to success or to
\* failed, in the step that finishes its task, and never changes again;
\* errorMessage is set only in the step that sets status failed.
C12_StatusSetOnce ==
    /\ [](\A i \in DOMAIN filesToUpload :
             /\ filesToUpload[i].status \in {"pending", "success", "failed"}
             /\ filesToUpload[i].errorMessage # "none" =>
                    filesToUpload[i].status = "failed")
    /\ [][StatusStep]_vars

\* C12 witness: one candidate succeeded and another failed with its message,
\* and the folder call went on to its end.
C12_Witness ==
    /\ IsFolderCall /\ call.pc = "thrown" /\ Len(filesToUpload) = 2
    /\ \E i, j \in DOMAIN filesToUpload :
          /\ filesToUpload[i].status = "success"
          /\ filesToUpload[i].errorMessage = "none"
          /\ filesToUpload[j].status = "failed"
          /\ filesToUpload[j].errorMessage # "none"

RECURSIVE BytesHeld(_)
\* the bytes of the part buffers that a part list holds
BytesHeld(parts) ==
    IF parts = <<>> THEN 0
    ELSE (IF Head(parts).data THEN Head(parts).size ELSE 0) + BytesHeld(Tail(parts))

RECURSIVE BytesInFlight(_)
\* the bytes of the parts that are being uploaded
BytesInFlight(parts) ==
    IF parts = <<>> THEN 0
    ELSE (IF Head(parts).st \in {"url", "put", "backoff"} THEN Head(parts).size ELSE 0)
         + BytesInFlight(Tail(parts))

\* C13: a part whose upload has ended, with an ETag or with its retries
\* exhausted, no longer holds its byte buffer, so the bytes a session holds are
\* at most those of the parts being uploaded.
C13_BufferReleased ==
    \A i \in DOMAIN xfer :
        Multi(i) =>
            /\ \A p \in 1..Len(xfer[i].parts) :
                  xfer[i].parts[p].st \in {"done", "failed"} => ~xfer[i].parts[p].data
            /\ Dispatched(i) => BytesHeld(xfer[i].parts) <= BytesInFlight(xfer[i].parts)

\* C14: a single-unit transfer performs its storage write (POST or PUT) at most
\* once; a failed storage response fails the unit at once: the write is not
\* repeated and confirmSingleUpload is never called for that unit.
C14_StorageWriteOnce ==
    \A i \in DOMAIN xfer :
        Single(i) =>
            /\ xfer[i].calls.post + xfer[i].calls.put <= 1
            /\ xfer[i].storage = "failed" =>
                  /\ xfer[i].pc = "thrown"
                  /\ xfer[i].err.kind \in {"PostFailed", "PutFailed"}
                  /\ xfer[i].calls.confirm = 0
                  /\ xfer[i].calls.auth = xfer[i].attempt + 1

\* C14 witness: with retries configured, the PUT of a unit failed and the unit
\* ended after that one write.
C14_Witness ==
    \E i \in DOMAIN xfer :
        /\ Single(i) /\ config.retry_attempts >= 1
        /\ xfer[i].storage = "failed" /\ xfer[i].pc = "thrown"
        /\ xfer[i].calls.put = 1 /\ xfer[i].calls.confirm = 0

\* a single-unit transfer returns in this step
SingleReturns(i) ==
    /\ i \in DOMAIN xfer /\ i \in DOMAIN xfer'
    /\ Single(i) /\ xfer[i].pc # "returned" /\ xfer'[i].pc = "returned"

\* C15: a single-unit transfer returns success only after the authorization
\* succeeded, then the storage write succeeded, then confirmSingleUpload
\* succeeded; confirm is called at most once and its failure fails the upload
\* without a retry; a storage response without an ETag does not fail the upload,
\* confirm is then called with a null ETag.
C15_SingleSuccessSequence ==
    /\ [](\A i \in DOMAIN xfer :
             Single(i) =>
                 /\ xfer[i].calls.confirm <= 1
                 /\ xfer[i].storage # "none" => xfer[i].shape # "none"
                 /\ xfer[i].calls.confirm > 0 =>
                        /\ xfer[i].storage = "ok"
                        /\ xfer[i].confirmETag =
                               (IF xfer[i].s3ETag = "etag" THEN "etag" ELSE "null")
                 /\ xfer[i].calls.confirm = 0 => xfer[i].confirmETag = "unset"
                 /\ xfer[i].pc = "returned" =>
                        /\ xfer[i].calls.confirm = 1 /\ xfer[i].err = NoError
                        /\ xfer[i].storage = "ok" /\ xfer[i].shape # "none"
                 /\ xfer[i].err.kind = "ConfirmFailed" =>
                        /\ xfer[i].pc = "thrown" /\ xfer[i].calls.confirm = 1
                        /\ xfer[i].calls.post + xfer[i].calls.put = 1)
    /\ [][\A i \in DOMAIN xfer :
             SingleReturns(i) => xfer[i].pc = "confirm" /\ xfer[i].storage = "ok"]_vars

\* C15 witness: the PUT response had no ETag, confirm was called with null and
\* succeeded, and the upload returned.
C15_Witness ==
    \E i \in DOMAIN xfer :
        /\ Single(i) /\ xfer[i].pc = "returned"
        /\ xfer[i].s3ETag = "undefined" /\ xfer[i].confirmETag = "null"
        /\ xfer[i].calls.put = 1 /\ xfer[i].calls.confirm = 1

\* C16: a multipart transfer reports success only if completeMultipartUpload was
\* called, succeeded and yielded a resulting location; every other run throws.
C16_SuccessNeedsLocation ==
    \A i \in DOMAIN xfer :
        (Multi(i) /\ xfer[i].pc = "returned") =>
            /\ xfer[i].calls.complete = 1
            /\ xfer[i].session = "completed"
            /\ xfer[i].err = NoError
            /\ xfer[i].location = "location"

\* C17: when abortMultipartUpload itself fails, the error the multipart handler
\* throws is still the original failure, parts failed on the first abort path and
\* complete failed on the second, never the failure of the abort.
C17_AbortFailureNotMasking ==
    \A i \in DOMAIN xfer :
        (Multi(i) /\ xfer[i].abortResult = "failed") =>
            /\ xfer[i].pc = "thrown"
            /\ xfer[i].calls.abort = 1
            /\ xfer[i].calls.complete = 0 =>
                  xfer[i].err = Err("PartsFailed", 0) /\ NoETag(i) # {}
            /\ xfer[i].calls.complete = 1 =>
                  xfer[i].err = Err("CompleteFailed", 0) /\ NoETag(i) = {}

\* C17 witness: the abort failed on each of the two paths.
C17_Witness ==
    \E i \in DOMAIN xfer :
        /\ Multi(i) /\ xfer[i].abortResult = "failed" /\ xfer[i].session = "open"
        /\ xfer[i].err.kind = "PartsFailed"

\* C17 on the second path: the abort after a failed complete failed as well.
C17_WitnessComplete ==
    \E i \in DOMAIN xfer :
        /\ Multi(i) /\ xfer[i].abortResult = "failed" /\ xfer[i].session = "open"
        /\ xfer[i].err.kind = "CompleteFailed"

\* part p of transfer i gives up in this step
PartGivesUp(i, p) ==
    /\ i \in DOMAIN xfer /\ i \in DOMAIN xfer'
    /\ p \in 1..Len(xfer[i].parts) /\ Len(xfer'[i].parts) = Len(xfer[i].parts)
    /\ xfer[i].parts[p].st # "failed" /\ xfer'[i].parts[p].st = "failed"

\* C18: a part that exhausts its retries marks only itself as failed: the step
\* changes no sibling part and makes no control-plane call; while any part has an
\* attempt in flight or remaining the transfer keeps uploading and has called
\* neither abort nor complete; and when abort is called after the dispatch every
\* part has either its ETag or all its N+1 tries behind it.
C18_FailedPartIsolated ==
    /\ [](\A i \in DOMAIN xfer :
             Multi(i) =>
                 /\ PartsInFlight(xfer[i]) # {} =>
                        /\ xfer[i].pc = "uploading"
                        /\ xfer[i].calls.abort = 0 /\ xfer[i].calls.complete = 0
                 /\ (xfer[i].calls.abort > 0 /\ Dispatched(i)) =>
                        \A p \in 1..Len(xfer[i].parts) :
                            \/ xfer[i].parts[p].st = "done"
                            \/ /\ xfer[i].parts[p].st = "failed"
                               /\ xfer[i].parts[p].urlCalls = config.retry_attempts + 1)
    /\ [][\A i \in DOMAIN xfer : \A p \in 1..Len(xfer[i].parts) :
             PartGivesUp(i, p) =>
                 /\ \A q \in 1..Len(xfer[i].parts) :
                       q # p => xfer'[i].parts[q] = xfer[i].parts[q]
                 /\ xfer'[i].pc = xfer[i].pc
                 /\ xfer'[i].calls = xfer[i].calls]_vars

\* C18 witness: one part has given up while a sibling is in its PUT; the transfer
\* is still uploading and no abort was called.
C18_Witness ==
    \E i \in DOMAIN xfer :
        /\ Multi(i) /\ xfer[i].pc = "uploading" /\ xfer[i].calls.abort = 0
        /\ \E p, q \in 1..Len(xfer[i].parts) :
              /\ xfer[i].parts[p].st = "failed"
              /\ xfer[i].parts[q].st = "put"

\* C19: whatever the order in which the parts finished, the parts list sent to
\* completeMultipartUpload is strictly ascending by PartNumber and holds each
\* part number 1..partCount exactly once, with that part's own ETag and checksum.
C19_CompletePartsOrdered ==
    \A i \in DOMAIN xfer :
        (Multi(i) /\ xfer[i].calls.complete > 0) =>
            LET sent == xfer[i].completeParts
            IN  /\ Len(sent) = xfer[i].numParts
                /\ Len(sent) = Len(xfer[i].parts)
                /\ \A k \in 1..Len(sent) :
                      /\ sent[k].PartNumber = k
                      /\ sent[k].ETag = xfer[i].parts[k].etag
                      /\ sent[k].ETag # <<>> /\ sent[k].ETag[1] = k
                      /\ sent[k].ChecksumSHA256 =
                             <<(k - 1) * EffectiveChunk(config), xfer[i].parts[k].size>>
                /\ \A k \in 1..(Len(sent) - 1) :
                      sent[k].PartNumber < sent[k + 1].PartNumber

\* C19 witness: the parts of a 3-part file finished in the order 3, 1, 2 and the
\* list was sent to complete.
C19_Witness ==
    \E i \in DOMAIN xfer :
        /\ Multi(i) /\ xfer[i].calls.complete = 1
        /\ xfer[i].finishOrder = <<3, 1, 2>>
        /\ Len(xfer[i].completeParts) = 3

\* the await of completeMultipartUpload of transfer i ends in this step
CompleteSettles(i) ==
    /\ i \in DOMAIN xfer /\ i \in DOMAIN xfer'
    /\ Multi(i) /\ xfer[i].pc = "complete" /\ xfer'[i] # xfer[i]

\* C20: a multipart transfer calls startMultipartUpload and
\* completeMultipartUpload at most once each; a failed start fails the file with
\* no further control-plane call, and a failed complete goes directly to abort.
C20_StartCompleteOnce ==
    /\ [](\A i \in DOMAIN xfer :
             Multi(i) =>
                 /\ xfer[i].calls.start <= 1 /\ xfer[i].calls.complete <= 1
                 /\ xfer[i].err.kind = "InitiateFailed" =>
                        /\ xfer[i].pc = "thrown"
                        /\ xfer[i].calls = [NoCalls EXCEPT !.checksum = 1, !.start = 1]
                        /\ xfer[i].parts = <<>>
                 /\ xfer[i].err.kind = "CompleteFailed" =>
                        xfer[i].calls.complete = 1 /\ xfer[i].calls.abort = 1)
    /\ [][\A i \in DOMAIN xfer :
             CompleteSettles(i) =>
                 \/ xfer'[i].pc = "returned" /\ xfer'[i].calls = xfer[i].calls
                 \/ /\ xfer'[i].pc = "abortComplete"
                    /\ xfer'[i].calls = [xfer[i].calls EXCEPT !.abort = @ + 1]]_vars

\* C20 witness: with retries configured, complete failed once and the transfer
\* ended after the abort that followed.
C20_Witness ==
    \E i \in DOMAIN xfer :
        /\ Multi(i) /\ config.retry_attempts >= 1
        /\ xfer[i].err.kind = "CompleteFailed" /\ xfer[i].session # "completed"
        /\ xfer[i].calls.start = 1 /\ xfer[i].calls.complete = 1
        /\ xfer[i].calls.abort = 1

\* C20 on a failed start: the file failed after the one call.
C20_WitnessStart ==
    \E i \in DOMAIN xfer :
        /\ Multi(i) /\ config.retry_attempts >= 1
        /\ xfer[i].err.kind = "InitiateFailed" /\ xfer[i].calls.start = 1

RECURSIVE TotalPartsInFlight(_)
\* the part uploads in flight over all the transfers of a list
TotalPartsInFlight(xs) ==
    IF xs = <<>> THEN 0
    ELSE Cardinality(PartsInFlight(Head(xs))) + TotalPartsInFlight(Tail(xs))

\* C21: during a folder upload with fileConcurrency = F and partConcurrency = P
\* the part uploads in flight over all running multipart files never exceed F * P.
C21_PeakPartConcurrency ==
    (IsFolderCall /\ fileConcurrency.type = "number" /\ partConcurrency.type = "number") =>
        TotalPartsInFlight(xfer) <= fileConcurrency.val * partConcurrency.val

RECURSIVE Hidden(_, _)
\* entry n or a directory above it, below the root, is ignored
Hidden(tree, n) ==
    IF n = 0 THEN FALSE ELSE tree[n].ignored \/ Hidden(tree, tree[n].parent)

\* the regular files of a tree that are of an allowed type and not hidden
Uploadable(tree) ==
    {n \in DOMAIN tree :
        tree[n].kind = "file" /\ ~tree[n].denied /\ ~Hidden(tree, n)}

RECURSIVE SumEntrySizes(_)
SumEntrySizes(ns) ==
    IF ns = {} THEN 0
    ELSE LET n == CHOOSE m \in ns : TRUE IN EntrySize(n) + SumEntrySizes(ns \ {n})

\* C22: the candidates a scan returns are exactly the regular files that are not
\* of a denied type and for which neither the file nor a directory above it is
\* ignored, each once and pending; totalSize is the sum of their sizes; the scan
\* raises no error for a denied file.
C22_ScanCandidates ==
    (entry = "scanFolderForUpload" /\ call.pc # "scan") =>
        /\ call.pc = "returned" /\ call.err = NoError
        /\ {filesToUpload[i].size : i \in DOMAIN filesToUpload}
               = {EntrySize(n) : n \in Uploadable(folder)}
        /\ Len(filesToUpload) = Cardinality(Uploadable(folder))
        /\ \A i \in DOMAIN filesToUpload :
              filesToUpload[i].status = "pending" /\ filesToUpload[i].errorMessage = "none"
        /\ totalSize = SumEntrySizes(Uploadable(folder))
        /\ totalSize = SumSizes(filesToUpload)

\* C22 witness: an ignored directory hides the file in it, and the file next to
\* the directory is the one candidate.
C22_Witness ==
    /\ entry = "scanFolderForUpload" /\ call.pc = "returned" /\ Len(folder) = 3
    /\ \E d, f, g \in DOMAIN folder :
          /\ folder[d].kind = "dir" /\ folder[d].ignored
          /\ folder[f].kind = "file" /\ folder[f].parent = d
          /\ ~folder[f].ignored /\ ~folder[f].denied
          /\ folder[g].kind = "file" /\ folder[g].parent = 0
          /\ ~folder[g].ignored /\ ~folder[g].denied
          /\ Len(filesToUpload) = 1 /\ totalSize = EntrySize(g)

\* C23: when the scan yields no candidate, processFolderUpload returns the
\* summary {totalFiles: 0, successfulUploads: 0, failedUploads: 0, results: []},
\* raises no error and makes no control-plane or storage call.
C23_EmptyFolderSummary ==
    (IsFolderCall /\ call.pc # "scan" /\ call.err.kind # "Scan"
         /\ filesToUpload = <<>>) =>
        /\ call.pc = "returned" /\ call.err = NoError
        /\ call.summary = [totalFiles |-> 0, successfulUploads |-> 0,
                           failedUploads |-> 0, results |-> <<>>, given |-> TRUE]
        /\ xfer = <<>> /\ activeFileUploads = {}
        /\ retiredCalls = NoCalls

\* C23 witness: a folder call returned on an empty scan.
C23_Witness ==
    /\ IsFolderCall /\ filesToUpload = <<>>
    /\ call.pc = "returned" /\ call.summary.given /\ call.summary.totalFiles = 0
    /\ fileConcurrency.val >= 1

\* C24: a file of a disallowed type is rejected before any network call: for it
\* neither handler makes a control-plane or storage request and no checksum is
\* computed, whether the file is given to upload() or to a handler directly.
C24_DisallowedRejectedFirst ==
    \A i \in DOMAIN xfer :
        filesToUpload[i].disallowed =>
            /\ xfer[i].pc = "thrown" /\ xfer[i].err = Err("Disallowed", 0)
            /\ xfer[i].calls = NoCalls
            /\ xfer[i].parts = <<>> /\ xfer[i].session = "none"
            /\ call.pc \in {"file", "thrown"}

\* C24 witness: the single-unit handler, called directly on a disallowed file,
\* has thrown.
C24_Witness ==
    /\ entry = "handleSingleFileUpload" /\ call.pc = "thrown"
    /\ filesToUpload[1].disallowed /\ xfer[1].handler = "single"
    /\ call.err.kind = "Disallowed"

\* C25: the wait after failed attempt i < N is 2^i seconds and there is no wait
\* after the last failed attempt, so the waits begun once attempt i has failed
\* add up to 2^(i+1) - 1 seconds and an operation that failed all its tries has
\* waited 2^N - 1 seconds; the same holds for the single-unit authorization and
\* for every multipart part.
C25_BackoffSchedule ==
    \A i \in DOMAIN xfer :
        /\ Single(i) =>
              /\ xfer[i].pc = "backoff" =>
                    /\ xfer[i].attempt < config.retry_attempts
                    /\ xfer[i].waited = 2 ^ (xfer[i].attempt + 1) - 1
              /\ xfer[i].pc # "backoff" => xfer[i].waited = 2 ^ xfer[i].attempt - 1
              /\ xfer[i].err.kind = "AuthFailed" =>
                    xfer[i].waited = 2 ^ config.retry_attempts - 1
        /\ Multi(i) =>
              \A p \in 1..Len(xfer[i].parts) :
                  LET pt == xfer[i].parts[p]
                  IN  /\ pt.st = "backoff" =>
                            /\ pt.retries < config.retry_attempts
                            /\ pt.waited = 2 ^ (pt.retries + 1) - 1
                      /\ pt.st # "backoff" => pt.waited = 2 ^ pt.retries - 1
                      /\ pt.st = "failed" => pt.waited = 2 ^ config.retry_attempts - 1

\* C25 witness: with N = 2 a part failed its three tries after waits of 1 and 2
\* seconds.
C25_Witness ==
    \E i \in DOMAIN xfer :
        /\ Multi(i) /\ config.retry_attempts = 2
        /\ \E p \in 1..Len(xfer[i].parts) :
              /\ xfer[i].parts[p].st = "failed"
              /\ xfer[i].parts[p].urlCalls = 3
              /\ xfer[i].parts[p].waited = 3

\* C25 for the authorization of a single unit: three failed tries, waits of 1
\* and 2 seconds.
C25_WitnessSingle ==
    \E i \in DOMAIN xfer :
        /\ Single(i) /\ config.retry_attempts = 2
        /\ xfer[i].err.kind = "AuthFailed" /\ xfer[i].waited = 3

\* C26: the folder result list holds one entry for every finished candidate and
\* no other, so at the end exactly one per candidate; and the entries stand in
\* the order in which the transfers finished: the step that finishes a task puts
\* its entry at the end of the list.
C26_ResultsInFinishOrder ==
    /\ [](IsFolderCall =>
             /\ \A k, l \in DOMAIN results :
                   results[k].file = results[l].file => k = l
             /\ {results[k].file : k \in DOMAIN results}
                    = {i \in DOMAIN xfer : xfer[i].pc = "settled"}
             /\ \A k \in DOMAIN results :
                   results[k].status = filesToUpload[results[k].file].status
             /\ (call.pc \in {"returned", "thrown"} /\ call.err.kind # "Scan") =>
                   Len(results) = Len(filesToUpload))
    /\ [][\A i \in DOMAIN xfer :
             TaskFinishes(i) =>
                 /\ Len(results') = Len(results) + 1
                 /\ SubSeq(results', 1, Len(results)) = results
                 /\ results'[Len(results')].file = i]_vars

\* C26 witness: the second candidate of the scan finished first, and the list
\* of the ended call has it first.
C26_Witness ==
    /\ IsFolderCall /\ call.pc \in {"returned", "thrown"}
    /\ Len(results) = 2
    /\ results[1].file = 2 /\ results[2].file = 1

\* C27: a part attempt whose PUT succeeded but whose response has no ETag, or an
\* empty one, is a failed attempt: it uses up one try of the part and is followed
\* by a wait and a new try, or by giving up when it was the last; a part's etag
\* is only ever set to a non-empty value, and only a part with one is done.
C27_MissingETagFailsAttempt ==
    \A i \in DOMAIN xfer :
        Multi(i) =>
            \A p \in 1..Len(xfer[i].parts) :
                LET pt == xfer[i].parts[p]
                IN  /\ pt.st = "done" <=> pt.etag # <<>>
                    /\ pt.etag # <<>> => pt.etag = <<p, pt.retries>>
                    /\ (pt.caught.kind = "noetag" /\ pt.st \in {"backoff", "failed"}
                            /\ pt.caught.attempt = pt.retries) =>
                           /\ pt.etag = <<>>
                           /\ pt.putCalls >= 1 /\ pt.urlCalls = pt.retries + 1
                           /\ pt.st = "failed" <=> pt.retries = config.retry_attempts
                           /\ pt.st = "failed" => pt.error = pt.caught
                    /\ pt.caught.kind = "noetag" => pt.urlCalls >= pt.caught.attempt + 1

\* C27 witness: the first PUT of a part came back without an ETag, the part was
\* tried again and then obtained one.
C27_Witness ==
    \E i \in DOMAIN xfer :
        /\ Multi(i)
        /\ \E p \in 1..Len(xfer[i].parts) :
              /\ xfer[i].parts[p].caught = Err("noetag", 0)
              /\ xfer[i].parts[p].st = "done"
              /\ xfer[i].parts[p].retries = 1 /\ xfer[i].parts[p].putCalls = 2

\* a part of transfer i has been handed to the uploader: a URL was requested
\* for it, or a PUT made
PartTouched(i, p) ==
    \/ xfer[i].parts[p].urlCalls > 0
    \/ xfer[i].parts[p].putCalls > 0
    \/ xfer[i].parts[p].st \in {"url", "put", "backoff", "done", "failed"}

\* transfer i ended on a failed read of one of its parts
PartReadFailed(i) == xfer[i].pc = "thrown" /\ xfer[i].err.kind \in {"PartRead", "ShortRead"}

\* C28: in a multipart transfer no URL is requested and no PUT is made for any
\* part until every part of the file has been read in full and checksummed; when
\* the read of a part fails or comes back short, the transfer ends with no part
\* of the file uploaded.
C28_AllPartsReadBeforeUpload ==
    \A i \in DOMAIN xfer :
        Multi(i) =>
            /\ (\E p \in 1..Len(xfer[i].parts) : PartTouched(i, p)) =>
                   \A q \in 1..Len(xfer[i].parts) :
                       /\ xfer[i].parts[q].data
                       /\ xfer[i].parts[q].checksumSHA256 =
                              ChecksumForBytes(xfer[i].parts[q].offset, xfer[i].parts[q].size)
            /\ \A p \in 1..Len(xfer[i].parts) :
                   xfer[i].parts[p].error.kind \in {"PartRead", "ShortRead"} =>
                       /\ PartReadFailed(i) /\ xfer[i].err = xfer[i].parts[p].error
                       /\ ~xfer[i].parts[p].data
            /\ PartReadFailed(i) =>
                   /\ \A p \in 1..Len(xfer[i].parts) :
                          ~PartTouched(i, p) /\ xfer[i].parts[p].etag = <<>>
                   /\ xfer[i].calls.complete = 0
                   /\ xfer[i].uploadedPartsInfo = <<>>

\* C28 witness: the first part of a file was read, the read of the second came
\* back short, and the transfer ended.
C28_Witness ==
    \E i \in DOMAIN xfer :
        /\ Multi(i) /\ PartReadFailed(i)
        /\ xfer[i].err = Err("ShortRead", 2)
        /\ xfer[i].parts[1].data /\ ~xfer[i].parts[2].data

\* C28 witness: every part of a file of several parts was read and the parts
\* are being uploaded.
C28_WitnessUploading ==
    \E i \in DOMAIN xfer :
        /\ Multi(i) /\ Len(xfer[i].parts) >= 2
        /\ \E p \in 1..Len(xfer[i].parts) : xfer[i].parts[p].putCalls > 0

\* the requests transfer i has sent to the control plane and to storage
NetworkCalls(i) ==
    xfer[i].calls.auth + xfer[i].calls.post + xfer[i].calls.put + xfer[i].calls.confirm
        + xfer[i].calls.start + xfer[i].calls.complete + xfer[i].calls.abort

\* transfer i ended on a failure to checksum or to read its file
PreparationFailed(i) ==
    /\ xfer[i].pc = "thrown"
    /\ xfer[i].err.kind \in {"Checksum", "ReadFile", "PartRead", "ShortRead"}

\* C29: a transfer, single-unit or multipart, that ends on a checksum or
\* file-read failure has sent no request before that failure, and the failed
\* read or checksum was made once.
C29_PreparationFailsBeforeNetwork ==
    \A i \in DOMAIN xfer :
        PreparationFailed(i) =>
            /\ NetworkCalls(i) = 0
            /\ xfer[i].calls.checksum = 1 /\ xfer[i].calls.readFile <= 1

RECURSIVE LoadedAfter(_)
\* the bytes of the files that succeeded among the finished files res
LoadedAfter(res) ==
    IF res = <<>> THEN 0
    ELSE LoadedAfter(SubSeq(res, 1, Len(res) - 1))
            + (IF res[Len(res)].status = "success"
               THEN filesToUpload[res[Len(res)].file].size ELSE 0)

\* the folder call has candidates and is past its scan
FolderUploading ==
    /\ IsFolderCall /\ Len(filesToUpload) > 0
    /\ call.pc \in {"waiting", "returned", "thrown"}

\* every candidate of the folder has finished
FolderAllProcessed == FolderUploading /\ Len(results) = Len(filesToUpload)

\* the files of the folder that failed
FailedFiles == {i \in 1..Len(filesToUpload) : filesToUpload[i].status = "failed"}

\* C30 (as stated): when every file of the folder has finished, the last
\* progress event has loaded = total if and only if no file failed.
C30_LoadedIsTotalIffNoFailure ==
    FolderAllProcessed =>
        (folderProgress[Len(folderProgress)].loaded =
             folderProgress[Len(folderProgress)].total) <=> (failedUploads = 0)

\* C30 (amended): for a folder with at least one candidate there is one progress
\* event when the uploads begin and one per finished file; the k-th event has
\* filesProcessed = k - 1, up to totalFiles, and loaded equal to the bytes of the
\* files that had succeeded by then, so loaded never decreases and never exceeds
\* total; at the end loaded = total when no file failed, and loaded = total only
\* when every failed file has 0 bytes. A folder without candidates emits no
\* progress event.
C30_FolderProgress ==
    /\ FolderUploading =>
          /\ Len(folderProgress) = 1 + Len(results)
          /\ Len(results) = successfulUploads + failedUploads
          /\ \A k \in 1..Len(folderProgress) :
                /\ folderProgress[k].filesProcessed = k - 1
                /\ folderProgress[k].totalFiles = Len(filesToUpload)
                /\ folderProgress[k].total = SumSizes(filesToUpload)
                /\ folderProgress[k].loaded = LoadedAfter(SubSeq(results, 1, k - 1))
                /\ folderProgress[k].loaded <= folderProgress[k].total
                /\ k > 1 => folderProgress[k - 1].loaded <= folderProgress[k].loaded
    /\ FolderAllProcessed =>
          LET last == folderProgress[Len(folderProgress)]
          IN  /\ last.filesProcessed = last.totalFiles
              /\ failedUploads = 0 => last.loaded = last.total
              /\ last.loaded = last.total =>
                     \A i \in FailedFiles : filesToUpload[i].size = 0
    /\ (IsFolderCall /\ Len(filesToUpload) = 0) => folderProgress = <<>>

\* C30 witness: a folder of two files has finished, one file failed and one
\* succeeded, and the last of its three progress events has loaded < total.
C30_Witness ==
    /\ FolderAllProcessed /\ Len(filesToUpload) = 2
    /\ successfulUploads = 1 /\ failedUploads = 1
    /\ Len(folderProgress) = 3
    /\ folderProgress[3].loaded > 0
    /\ folderProgress[3].loaded < folderProgress[3].total

\* C30 witness: a file of 0 bytes failed, and the last progress event has
\* loaded = total.
C30_WitnessEmptyFileFailed ==
    /\ FolderAllProcessed /\ failedUploads > 0
    /\ folderProgress[Len(folderProgress)].loaded = folderProgress[Len(folderProgress)].total

RECURSIVE StartedHandlers(_)
\* the handlers begun by the file tasks xf that are still in flight: a handler
\* computes the checksum of its file once, as its first step
StartedHandlers(xf) ==
    IF xf = <<>> THEN 0 ELSE Head(xf).calls.checksum + StartedHandlers(Tail(xf))

\* the candidates whose task starts in this step
StartedNow ==
    {i \in DOMAIN xfer' :
        xfer'[i].pc # "idle" /\ (i \in DOMAIN xfer => xfer[i].pc = "idle")}

\* a step of the folder scheduler: the cursor moves forward over exactly the
\* candidates it starts, and a started candidate is not started again
DispatchStep ==
    IsFolderCall =>
        /\ currentIndex' >= currentIndex
        /\ StartedNow = (currentIndex + 1)..currentIndex'
        /\ \A i \in DOMAIN xfer :
              /\ xfer[i].pc # "idle" => xfer'[i].pc # "idle"
              /\ xfer[i].pc = "settled" => xfer'[i] = xfer[i]

\* C32: in a folder upload the work cursor only moves forward; the candidates
\* started are always the first currentIndex candidates of the scan, so none is
\* started before its predecessor; and each is started once: the number of
\* handlers ever begun equals the cursor, also when a finishing task calls the
\* scheduler again.
C32_DispatchOnceInScanOrder ==
    /\ [](IsFolderCall =>
             /\ currentIndex \in 0..Len(filesToUpload)
             /\ \A i \in DOMAIN xfer : i <= currentIndex <=> xfer[i].pc # "idle"
             /\ activeFileUploads \subseteq 1..currentIndex
             /\ retiredCalls.checksum + StartedHandlers(xfer) = currentIndex
             /\ call.pc \in {"returned", "thrown"} /\ call.err.kind # "Scan" =>
                    retiredCalls.checksum = Len(filesToUpload))
    /\ [][DispatchStep]_vars

\* C32 witness: with two slots both candidates were started at once, the second
\* finished first and then the first, and each was started once.
C32_Witness ==
    /\ IsFolderCall /\ fileConcurrency.val = 2 /\ Len(filesToUpload) = 2
    /\ Len(results) = 2 /\ results[1].file = 2 /\ results[2].file = 1
    /\ currentIndex = 2 /\ retiredCalls.checksum = 2

\* the folder call waits with at least one candidate and at least one slot
FolderWaiting ==
    /\ IsFolderCall /\ call.pc = "waiting"
    /\ Len(filesToUpload) >= 1
    /\ fileConcurrency.type = "number" /\ fileConcurrency.val >= 1

\* the completion wait of the folder call is over in this step
WaitEnds == IsFolderCall /\ call.pc = "waiting" /\ call'.pc # "waiting"

\* C33: with at least one candidate and fileConcurrency >= 1, when every file
\* transfer eventually finishes processFolderUpload eventually returns or throws;
\* and its completion wait ends only when no candidate is undispatched or in
\* flight.
C33_FolderCallTerminates ==
    /\ FolderWaiting ~> (call.pc \in {"returned", "thrown"})
    /\ [][WaitEnds =>
             /\ activeFileUploads = {} /\ currentIndex = Len(filesToUpload)
             /\ \A i \in DOMAIN xfer : xfer[i].pc = "settled"
             /\ call'.pc \in {"returned", "thrown"}]_vars

\* C33 witness: with one slot and two candidates the folder call ended after
\* both had been dispatched and had finished.
C33_Witness ==
    /\ IsFolderCall /\ call.pc \in {"returned", "thrown"}
    /\ fileConcurrency.val = 1 /\ Len(filesToUpload) = 2
    /\ currentIndex = 2 /\ activeFileUploads = {}
    /\ successfulUploads + failedUploads = 2

\* C34: with at least one candidate and fileConcurrency = 0 the folder call
\* starts no transfer and never returns or throws: after the scan it waits for
\* ever, with the cursor at 0, which is short of the end of the candidate list.
C34_ZeroConcurrencyHangs ==
    (IsFolderCall /\ fileConcurrency = Num(0) /\ Len(filesToUpload) >= 1) =>
        /\ call.pc = "waiting"
        /\ currentIndex = 0 /\ currentIndex < Len(filesToUpload)
        /\ activeFileUploads = {}
        /\ \A i \in DOMAIN xfer : xfer[i] = IdleXfer
        /\ \A i \in DOMAIN filesToUpload : filesToUpload[i].status = "pending"
        /\ results = <<>> /\ retiredCalls = NoCalls
        /\ ~PollCond(Cardinality(activeFileUploads), currentIndex, Len(filesToUpload))
        /\ ~ENABLED NextFolder

\* C34 witness: a folder of two candidates was scanned with fileConcurrency = 0
\* and the call waits.
C34_Witness ==
    /\ IsFolderCall /\ fileConcurrency = Num(0)
    /\ Len(filesToUpload) = 2 /\ call.pc = "waiting"
    /\ Len(folderProgress) = 1

\* C35: abortMultipartUpload is never called for a session whose
\* completeMultipartUpload call succeeded, and never before startMultipartUpload
\* returned a session.
C35_NoAbortAfterComplete ==
    \A i \in DOMAIN xfer :
        (Multi(i) /\ xfer[i].calls.abort > 0) =>
            /\ xfer[i].session # "completed"
            /\ xfer[i].calls.start = 1 /\ xfer[i].session # "none"

RECURSIVE BytesOfPartsWithETag(_)
\* the bytes of the parts that have an ETag
BytesOfPartsWithETag(parts) ==
    IF parts = <<>> THEN 0
    ELSE (IF Head(parts).etag # <<>> THEN Head(parts).size ELSE 0)
            + BytesOfPartsWithETag(Tail(parts))

\* C36: a part that has an ETag is finished: no URL is requested and no PUT made
\* for it any more; its retry counter is at most retry_attempts; and the file's
\* uploaded-byte counter is the sum of the sizes of the parts with an ETag, so it
\* never exceeds the file size and equals it exactly when every part has one.
C36_PartDoneOnce ==
    \A i \in DOMAIN xfer :
        (Multi(i) /\ xfer[i].pc # "settled") =>
            /\ \A p \in 1..Len(xfer[i].parts) :
                  /\ xfer[i].parts[p].etag # <<>> =>
                         xfer[i].parts[p].st \notin {"url", "put", "backoff"}
                  /\ xfer[i].parts[p].retries <= config.retry_attempts
            /\ xfer[i].totalBytesUploadedForFile = BytesOfPartsWithETag(xfer[i].parts)
            /\ xfer[i].totalBytesUploadedForFile <= filesToUpload[i].size
            /\ (xfer[i].parts # <<>>) =>
                  (xfer[i].totalBytesUploadedForFile = filesToUpload[i].size
                      <=> NoETag(i) = {})

\* C37: in a single-unit transfer the form-style POST goes on to
\* confirmSingleUpload only on storage status 204 and the PUT only on status
\* 200; with any other status, 200 on the POST path included, the transfer
\* fails and confirmSingleUpload is not called.
C37_OnlyExpectedStatusConfirms ==
    \A i \in DOMAIN xfer :
        (Single(i) /\ xfer[i].pc # "settled") =>
            /\ xfer[i].calls.confirm > 0 =>
                  \/ xfer[i].shape = "form" /\ xfer[i].status = 204
                  \/ xfer[i].shape = "put" /\ xfer[i].status = 200
            /\ (xfer[i].shape = "form" /\ xfer[i].storage # "none"
                    /\ xfer[i].status # 204) =>
                  /\ xfer[i].pc = "thrown" /\ xfer[i].calls.confirm = 0
                  /\ xfer[i].err.kind \in {"PostStatus", "PostFailed"}
            /\ (xfer[i].shape = "put" /\ xfer[i].storage # "none"
                    /\ xfer[i].status # 200) =>
                  /\ xfer[i].pc = "thrown" /\ xfer[i].calls.confirm = 0
                  /\ xfer[i].err.kind \in {"PutStatus", "PutFailed"}

\* C37 witness: storage answered the form-style POST with status 200 and the
\* transfer failed without a confirm call.
C37_Witness ==
    \E i \in DOMAIN xfer :
        /\ Single(i) /\ xfer[i].shape = "form"
        /\ xfer[i].status = 200 /\ xfer[i].storage = "ok"
        /\ xfer[i].pc = "thrown" /\ xfer[i].calls.confirm = 0

\* C37 witness: storage answered the form-style POST with status 204 and the
\* upload was confirmed.
C37_WitnessPost204 ==
    \E i \in DOMAIN xfer :
        /\ Single(i) /\ xfer[i].shape = "form" /\ xfer[i].status = 204
        /\ xfer[i].pc = "returned" /\ xfer[i].calls.confirm = 1

\* what instance j operates with: the content of its configuration object
InstanceConfig(j) == cfgmod.heap[cfgmod.instances[j].config]

\* C38: constructor overrides given to one uploader affect only that instance:
\* an uploader initialized, after another one on the same configuration path,
\* without overrides has at the end of its initialization the values of the
\* configuration file.
C38_OverridesStayLocal ==
    \A j \in 1..Len(cfgmod.instances) :
        (/\ j = Len(cfgmod.instances)
         /\ ~cfgmod.lastSave.valid /\ ~cfgmod.lastGet.valid
         /\ cfgmod.instances[j].options = NoOverrides
         /\ \E i \in 1..(j - 1) : cfgmod.instances[i].path = cfgmod.instances[j].path)
        => InstanceConfig(j) = cfgmod.instances[j].fileAtInit

\* a getConfig that follows a saveConfigValue on the same path
GetAfterSave ==
    /\ cfgmod.lastSave.valid
    /\ cfgmod.lastGet.valid
    /\ cfgmod.lastGet.path = cfgmod.lastSave.path

\* C39: after a successful saveConfigValue(key, value) the next getConfig for
\* that path returns the content of the file, with the saved value; after a
\* failed write the following getConfig returns the configuration as it was
\* before the call.
C39_SaveThenGet ==
    GetAfterSave =>
        IF cfgmod.lastSave.ok
        THEN /\ cfgmod.lastGet.data = cfgmod.files[cfgmod.lastSave.path].data
             /\ cfgmod.lastGet.data[cfgmod.lastSave.key] = cfgmod.lastSave.value
        ELSE cfgmod.lastGet.data = cfgmod.lastSave.before

====
